---- MODULE Spec2Model ----
(***************************************************************************)
(* Product availability / pricing normalization service.                   *)
(*                                                                         *)
(* The model covers the per-vendor circuit breaker and its registry        *)
(* (services/circuit_breaker.py), the vendor service that fans a product   *)
(* lookup out to the vendors behind those breakers                         *)
(* (services/vendor_service.py), the vendors' normalization                *)
(* (vendors/*.py) and the HTTP layer with its rate limiter (main.py,       *)
(* middleware/rate_limit.py).                                              *)
(*                                                                         *)
(* The specifications share the state:                                     *)
(*   SpecBreaker    a client calls the public methods of one breaker in    *)
(*                  any order while the clock advances;                    *)
(*   SpecManager    a client of the registry of breakers;                  *)
(*   Spec           get_best_vendor requests run on the asyncio event      *)
(*                  loop; every step is the code between two suspension    *)
(*                  points;                                                *)
(*   SpecConcurrent two get_best_vendor calls interleave;                  *)
(*   SpecCancel     the same, with cancellation;                           *)
(*   SpecRetry      one get_best_vendor call under a higher                *)
(*                  VENDOR_MAX_RETRIES;                                    *)
(*   SpecPure       the freshness filter and the selection applied to      *)
(*                  lists of quotes;                                       *)
(*   SpecNormalize  the vendors' normalization applied to raw responses;   *)
(*   SpecHttp       requests to /products/{sku};                           *)
(*   SpecRateLimit  the same, while windows of the rate limiter pass and   *)
(*                  requests are cancelled inside the rate limiter.        *)
(***************************************************************************)
EXTENDS Integers, Sequences, FiniteSets, TLC

(***************************************************************************)
(* Settings (config.py) and the bounds of the model.                       *)
(***************************************************************************)
CIRCUIT_BREAKER_FAILURE_THRESHOLD == 3

CIRCUIT_BREAKER_TIMEOUT_SECONDS == 30

VENDOR_MAX_RETRIES == 2

DATA_FRESHNESS_MINUTES == 10

PRICE_DIFFERENCE_THRESHOLD_PERCENT == 10

CACHE_TTL_SECONDS == 120

\* The clock advances in steps of half a cooldown, so that a breaker is seen
\* before, exactly at and after the end of its cooldown.
TickSeconds == CIRCUIT_BREAKER_TIMEOUT_SECONDS \div 2

\* Number of clock steps.
MaxTicks == 2

\* Cap of the breaker's lifetime counters under SpecBreaker.
MaxCalls == 4

\* None, for last_failure_time.
NoTime == 0 - 1

VendorNames == <<"VendorOne", "VendorTwo", "VendorThree">>

Vendors == {VendorNames[i] : i \in 1..Len(VendorNames)}

\* The breaker the client of SpecBreaker drives.
ProbeVendors == {"VendorOne"}

\* The product keys looked up: one that every vendor's catalogue holds, one
\* that VendorOne does not hold and VendorTwo holds with no stock.
SKUs == {"ABC123", "GHI303"}

\* The get_best_vendor calls that can be in progress at once.
Reqs == {"r1"}

\* get_best_vendor calls made in all.
MaxResolves == 1

VARIABLES
    now,          \* datetime.utcnow(), in seconds
    breakers,     \* CircuitBreakerManager.breakers: vendor name -> CircuitBreaker
    last_call,    \* the latest call made by the client of SpecBreaker: the
                  \* vendor, the method, the breaker's state before it and,
                  \* for can_execute, the value returned
    since_clean,  \* per vendor: record_failure calls since the breaker was last
                  \* closed with failure_count 0, with no record_success since;
                  \* NoTime when that run was interrupted by a record_success
                  \* that did not leave the breaker closed
    calls,        \* per vendor and breaker method: how often it has been
                  \* called, counted beside the breaker's own counters
    cache,        \* the store behind CacheService: sku -> entry
    reqs,         \* the get_best_vendor calls: where each stands, and its locals
    tasks,        \* per call and vendor: the _query_vendor_with_circuit_breaker
                  \* coroutine that asyncio.gather runs
    resolves,     \* number of get_best_vendor calls made so far
    requests,     \* the HTTP requests to /products/{sku}: where each stands
                  \* between the middleware and the response
    rate_limits   \* the rate_limit:<api key> counters of the store

vars == <<now, breakers, last_call, since_clean, calls, cache, reqs, tasks, resolves,
          requests, rate_limits>>

service == <<cache, reqs, tasks, resolves>>

http == <<requests, rate_limits>>

(***************************************************************************)
(* CircuitBreaker                                                          *)
(***************************************************************************)
CircuitBreaker(name) ==
    [ name              |-> name,
      failure_count     |-> 0,
      success_count     |-> 0,
      state             |-> "closed",
      last_failure_time |-> NoTime,
      last_state_change |-> 0,
      total_calls       |-> 0,
      total_failures    |-> 0 ]

_should_attempt_reset_strict(b, t) ==
    IF b.last_failure_time = NoTime
    THEN FALSE
    ELSE t > b.last_failure_time + CIRCUIT_BREAKER_TIMEOUT_SECONDS

_should_attempt_reset(b, t) ==
    IF b.last_failure_time = NoTime
    THEN FALSE
    ELSE t >= b.last_failure_time + CIRCUIT_BREAKER_TIMEOUT_SECONDS

_transition_to_closed_keeps_count(b, t) ==
    [b EXCEPT !.state = "closed", !.last_state_change = t]

_transition_to_closed(b, t) ==
    [b EXCEPT !.state = "closed", !.failure_count = 0, !.last_state_change = t]

_transition_to_open(b, t) ==
    [b EXCEPT !.state = "open", !.last_state_change = t]

_transition_to_half_open(b, t) ==
    [b EXCEPT !.state = "half_open", !.last_state_change = t]

\* can_execute: the breaker afterwards and the value returned.
can_execute(b, t) ==
    LET c == [b EXCEPT !.total_calls = @ + 1] IN
    IF c.state = "closed"
    THEN [breaker |-> c, ret |-> TRUE]
    ELSE IF c.state = "open"
    THEN IF _should_attempt_reset(c, t)
         THEN [breaker |-> _transition_to_half_open(c, t), ret |-> TRUE]
         ELSE [breaker |-> c, ret |-> FALSE]
    ELSE [breaker |-> c, ret |-> TRUE]

record_success_closes_open(b, t) ==
    LET c == [b EXCEPT !.success_count = @ + 1] IN
    IF c.state \in {"half_open", "open"}
    THEN _transition_to_closed(c, t)
    ELSE IF c.failure_count > 0 THEN [c EXCEPT !.failure_count = 0] ELSE c

record_success_clears_open(b, t) ==
    LET c == [b EXCEPT !.success_count = @ + 1] IN
    IF c.state = "half_open"
    THEN _transition_to_closed(c, t)
    ELSE IF c.failure_count > 0 THEN [c EXCEPT !.failure_count = 0] ELSE c

record_success(b, t) ==
    LET c == [b EXCEPT !.success_count = @ + 1] IN
    IF c.state = "half_open"
    THEN _transition_to_closed(c, t)
    ELSE IF c.state = "closed"
    THEN IF c.failure_count > 0 THEN [c EXCEPT !.failure_count = 0] ELSE c
    ELSE c

record_failure_late(b, t) ==
    LET c == [b EXCEPT !.failure_count = @ + 1,
                       !.total_failures = @ + 1,
                       !.last_failure_time = t] IN
    IF c.state = "half_open"
    THEN _transition_to_open(c, t)
    ELSE IF c.state = "closed"
    THEN IF c.failure_count > CIRCUIT_BREAKER_FAILURE_THRESHOLD
         THEN _transition_to_open(c, t)
         ELSE c
    ELSE c

record_failure_probe_ignored(b, t) ==
    LET c == [b EXCEPT !.failure_count = @ + 1,
                       !.total_failures = @ + 1,
                       !.last_failure_time = t] IN
    IF c.state = "closed" /\ c.failure_count >= CIRCUIT_BREAKER_FAILURE_THRESHOLD
    THEN _transition_to_open(c, t)
    ELSE c

record_failure_dropped_when_open(b, t) ==
    LET c == [b EXCEPT !.failure_count = @ + 1,
                       !.total_failures = @ + 1,
                       !.last_failure_time = t] IN
    IF b.state = "open" THEN b
    ELSE IF c.state = "half_open"
    THEN _transition_to_open(c, t)
    ELSE IF c.failure_count >= CIRCUIT_BREAKER_FAILURE_THRESHOLD
         THEN _transition_to_open(c, t)
         ELSE c

record_failure_keeps_stamp_when_open(b, t) ==
    LET c == [b EXCEPT !.failure_count = @ + 1,
                       !.total_failures = @ + 1,
                       !.last_failure_time = IF b.state = "open" THEN @ ELSE t] IN
    IF c.state = "half_open"
    THEN _transition_to_open(c, t)
    ELSE IF c.state = "closed"
    THEN IF c.failure_count >= CIRCUIT_BREAKER_FAILURE_THRESHOLD
         THEN _transition_to_open(c, t)
         ELSE c
    ELSE c

record_failure(b, t) ==
    LET c == [b EXCEPT !.failure_count = @ + 1,
                       !.total_failures = @ + 1,
                       !.last_failure_time = t] IN
    IF c.state = "half_open"
    THEN _transition_to_open(c, t)
    ELSE IF c.state = "closed"
    THEN IF c.failure_count >= CIRCUIT_BREAKER_FAILURE_THRESHOLD
         THEN _transition_to_open(c, t)
         ELSE c
    ELSE c

\* failure_rate_percent is kept in hundredths of a percent, rounded down.
get_metrics(b, t) ==
    [ vendor                        |-> b.name,
      state                         |-> b.state,
      failure_count                 |-> b.failure_count,
      success_count                 |-> b.success_count,
      total_calls                   |-> b.total_calls,
      total_failures                |-> b.total_failures,
      failure_rate_percent          |-> IF b.total_calls > 0
                                        THEN (b.total_failures * 10000) \div b.total_calls
                                        ELSE 0,
      time_in_current_state_seconds |-> t - b.last_state_change,
      last_failure                  |-> b.last_failure_time ]

get_state(b) == b.state

reset_keeps_state(b, t) ==
    [b EXCEPT !.failure_count = 0,
              !.success_count = 0,
              !.last_failure_time = NoTime,
              !.last_state_change = t]

\* reset: total_calls and total_failures are not assigned.
reset(b, t) ==
    [b EXCEPT !.state = "closed",
              !.failure_count = 0,
              !.success_count = 0,
              !.last_failure_time = NoTime,
              !.last_state_change = t]

(***************************************************************************)
(* CircuitBreakerManager.  The registry is a dict: a function from the     *)
(* registered names to their breakers, iterated in registration order.     *)
(***************************************************************************)
NoBreakers == [v \in {} |-> CircuitBreaker(v)]

KeyError == [kind |-> "KeyError"]

\* The keys of the dict in iteration order, for names that were registered
\* in the order of VendorNames, as VendorService.__init__ registers them.
RegisteredNames(bs) == SelectSeq(VendorNames, LAMBDA v : v \in DOMAIN bs)

register_replaces(bs, name, t) ==
    LET breaker == [CircuitBreaker(name) EXCEPT !.last_state_change = t]
        after == [v \in (DOMAIN bs) \cup {name} |-> IF v = name THEN breaker ELSE bs[v]]
    IN  [breakers |-> after, ret |-> breaker]

\* register: the registry afterwards and the breaker returned.
register(bs, name, t) ==
    IF name \in DOMAIN bs
    THEN [breakers |-> bs, ret |-> bs[name]]
    ELSE LET breaker == [CircuitBreaker(name) EXCEPT !.last_state_change = t]
             after == [v \in (DOMAIN bs) \cup {name} |->
                            IF v = name THEN breaker ELSE bs[v]]
         IN  [breakers |-> after, ret |-> breaker]

get_breaker_registers(bs, name, t) ==
    IF name \notin DOMAIN bs
    THEN register(bs, name, t)
    ELSE [breakers |-> bs, ret |-> bs[name]]

\* get_breaker: the registry afterwards and the breaker returned, or the
\* KeyError raised.
get_breaker(bs, name, t) ==
    IF name \notin DOMAIN bs
    THEN [breakers |-> bs, ret |-> KeyError]
    ELSE [breakers |-> bs, ret |-> bs[name]]

get_all_metrics(bs, t) == [v \in DOMAIN bs |-> get_metrics(bs[v], t)]

get_healthy_vendors_not_open(bs) ==
    SelectSeq(RegisteredNames(bs), LAMBDA v : get_state(bs[v]) # "open")

get_healthy_vendors(bs) ==
    SelectSeq(RegisteredNames(bs), LAMBDA v : get_state(bs[v]) = "closed")

get_unhealthy_vendors(bs) ==
    SelectSeq(RegisteredNames(bs), LAMBDA v : get_state(bs[v]) = "open")

reset_all(bs, t) == [v \in DOMAIN bs |-> reset(bs[v], t)]

(***************************************************************************)
(* Vendors (vendors/vendor_one.py, vendors/vendor_two.py).  Prices are in  *)
(* cents.  response_time_ms, which nothing reads, is left out of a         *)
(* VendorResponse.                                                         *)
(***************************************************************************)
NoStock == 0 - 1

VendorOneProducts ==
    [ ABC123 |-> [price |-> 9999,  stock |-> 10],
      XYZ789 |-> [price |-> 14950, stock |-> NoStock],
      DEF456 |-> [price |-> 7500,  stock |-> 25],
      LMN101 |-> [price |-> 20000, stock |-> 0],
      PQR202 |-> [price |-> 5000,  stock |-> 100] ]

VendorTwoProducts ==
    [ ABC123 |-> [price |-> 10550, stock |-> 15],
      XYZ789 |-> [price |-> 15500, stock |-> 8],
      DEF456 |-> [price |-> 7250,  stock |-> NoStock],
      LMN101 |-> [price |-> 19500, stock |-> 5],
      PQR202 |-> [price |-> 5200,  stock |-> 75],
      GHI303 |-> [price |-> 8999,  stock |-> 0],
      JKL404 |-> [price |-> 12000, stock |-> 50] ]

\* The one VendorThree answer the sources show (the example of
\* VendorThreeRawResponse).
VendorThreeProducts ==
    [ ABC123 |-> [price |-> 9500, stock |-> 8] ]

None == [kind |-> "none"]

Raised == [kind |-> "exception"]

\* datetime.utcnow().isoformat() + "Z"
IsoformatZ(t) == [iso |-> t, suffix |-> "Z"]

\* datetime.fromisoformat(s.replace("Z", "+00:00")): a string with an offset
\* parses to an offset-aware datetime, one without to a naive one.
FromIsoformat(s) ==
    [t |-> s.iso, tzinfo |-> IF s.suffix = "Z" THEN "utc" ELSE "naive"]

\* pydantic validates price (gt 0) and stock (ge 0): a value that fails
\* makes the constructor raise.
VendorResponse(name, sku, price, stock, status, timestamp) ==
    IF price > 0 /\ stock >= 0
    THEN [ kind        |-> "quote",
           vendor_name |-> name,
           sku         |-> sku,
           price       |-> price,
           stock       |-> stock,
           status      |-> status,
           timestamp   |-> timestamp ]
    ELSE Raised

VendorOneNormalize_TrustsFlag(raw) ==
    VendorResponse("VendorOne", raw.product_id, raw.unit_price,
        IF raw.quantity = NoStock THEN 0 ELSE raw.quantity,
        raw.availability_status,
        FromIsoformat(raw.last_updated))

VendorOneNormalize(raw) ==
    LET hasNull == raw.quantity = NoStock /\ raw.availability_status = "IN_STOCK"
        hasStock == raw.quantity # NoStock /\ raw.quantity > 0
    IN  VendorResponse("VendorOne", raw.product_id, raw.unit_price,
            IF hasNull THEN 5 ELSE IF hasStock THEN raw.quantity ELSE 0,
            IF hasNull \/ hasStock THEN "IN_STOCK" ELSE "OUT_OF_STOCK",
            FromIsoformat(raw.last_updated))

VendorOneGetProduct(sku, t) ==
    IF sku \notin DOMAIN VendorOneProducts
    THEN None
    ELSE LET d == VendorOneProducts[sku] IN
         VendorOneNormalize(
            [ product_id          |-> sku,
              quantity            |-> d.stock,
              unit_price          |-> d.price,
              availability_status |-> IF d.stock # 0 THEN "IN_STOCK" ELSE "OUT_OF_STOCK",
              last_updated        |-> IsoformatZ(t) ])

VendorTwoNormalize(raw) ==
    LET hasNull == raw.stock_count = NoStock /\ raw.in_stock
        hasStock == raw.stock_count # NoStock /\ raw.stock_count > 0
    IN  VendorResponse("VendorTwo", raw.sku, raw.price_amount,
            IF hasNull THEN 5 ELSE IF hasStock THEN raw.stock_count ELSE 0,
            IF hasNull \/ hasStock THEN "IN_STOCK" ELSE "OUT_OF_STOCK",
            FromIsoformat(raw.response_timestamp))

VendorTwoGetProduct(sku, t) ==
    IF sku \notin DOMAIN VendorTwoProducts
    THEN None
    ELSE LET d == VendorTwoProducts[sku] IN
         VendorTwoNormalize(
            [ sku                |-> sku,
              stock_count        |-> d.stock,
              price_amount       |-> d.price,
              in_stock           |-> d.stock = NoStock \/ d.stock > 0,
              response_timestamp |-> IsoformatZ(t) ])

\* vendors/vendor_three.py is not among the sources.  Its answer is a Quote
\* as the data model describes it; whether its timestamp carries an offset
\* is not known, so both are possible.
VendorThreeGetProduct(sku, t) ==
    IF sku \notin DOMAIN VendorThreeProducts
    THEN {None}
    ELSE LET d == VendorThreeProducts[sku] IN
         { VendorResponse("VendorThree", sku, d.price, d.stock,
                IF d.stock > 0 THEN "IN_STOCK" ELSE "OUT_OF_STOCK",
                [t |-> t, tzinfo |-> tz]) : tz \in {"utc", "naive"} }

\* What vendor v's get_product can return for sku at time t when it neither
\* fails nor times out.
GetProduct(v, sku, t) ==
    IF v = "VendorOne" THEN {VendorOneGetProduct(sku, t)}
    ELSE IF v = "VendorTwo" THEN {VendorTwoGetProduct(sku, t)}
    ELSE VendorThreeGetProduct(sku, t)

(***************************************************************************)
(* VendorService: the pure parts.                                          *)
(***************************************************************************)
RECURSIVE SuccessfulResponses_StopsAtException(_)
SuccessfulResponses_StopsAtException(results) ==
    IF results = <<>> \/ Head(results).kind = "exception" THEN <<>>
    ELSE (IF Head(results).kind = "none" THEN <<>> ELSE <<Head(results)>>)
            \o SuccessfulResponses_StopsAtException(Tail(results))

\* _query_all_vendors, after gather: the results that are neither an
\* exception nor None, in task order.
SuccessfulResponses(results) ==
    SelectSeq(results, LAMBDA x : x.kind # "exception" /\ x.kind # "none")

\* Comparing an offset-aware timestamp with the naive cutoff raises TypeError;
\* the comprehension compares every response.
_filter_by_freshness(responses, t) ==
    LET cutoff_time == t - DATA_FRESHNESS_MINUTES * 60 IN
    IF \E i \in 1..Len(responses) : responses[i].timestamp.tzinfo # "naive"
    THEN [raised |-> TRUE, value |-> <<>>]
    ELSE [raised |-> FALSE,
          value  |-> SelectSeq(responses, LAMBDA x : x.timestamp.t >= cutoff_time)]

\* sorted(..., key=price) is stable: x goes behind every element that is not
\* dearer than it.
RECURSIVE InsertByPrice(_, _)
InsertByPrice(x, sorted) ==
    IF sorted = <<>> THEN <<x>>
    ELSE IF Head(sorted).price <= x.price
         THEN <<Head(sorted)>> \o InsertByPrice(x, Tail(sorted))
         ELSE <<x>> \o sorted

RECURSIVE SortedByPrice(_)
SortedByPrice(xs) ==
    IF xs = <<>> THEN <<>>
    ELSE InsertByPrice(xs[Len(xs)], SortedByPrice(SubSeq(xs, 1, Len(xs) - 1)))

ExceedsThreshold_Inclusive(vendor, cheapest) ==
    (vendor.price - cheapest.price) * 100
        >= PRICE_DIFFERENCE_THRESHOLD_PERCENT * cheapest.price

\* price_diff_percent > threshold, with the division multiplied out.
ExceedsThreshold(vendor, cheapest) ==
    (vendor.price - cheapest.price) * 100
        > PRICE_DIFFERENCE_THRESHOLD_PERCENT * cheapest.price

_select_best_vendor_ignores_status(responses) ==
    LET in_stock_vendors == SelectSeq(responses, LAMBDA x : x.stock > 0)
        sorted_by_price == SortedByPrice(in_stock_vendors)
        cheapest == sorted_by_price[1]
        better == { i \in 2..Len(sorted_by_price) :
                      /\ ExceedsThreshold(sorted_by_price[i], cheapest)
                      /\ sorted_by_price[i].stock > cheapest.stock }
    IN  IF in_stock_vendors = <<>> THEN None
        ELSE IF better = {} THEN cheapest
        ELSE sorted_by_price[CHOOSE i \in better : \A j \in better : i <= j]

_select_best_vendor_most_stock(responses) ==
    LET in_stock_vendors ==
            SelectSeq(responses, LAMBDA x : x.stock > 0 /\ x.status = "IN_STOCK")
        sorted_by_price == SortedByPrice(in_stock_vendors)
        cheapest == sorted_by_price[1]
        better == { i \in 2..Len(sorted_by_price) :
                      /\ ExceedsThreshold(sorted_by_price[i], cheapest)
                      /\ sorted_by_price[i].stock > cheapest.stock }
    IN  IF in_stock_vendors = <<>> THEN None
        ELSE IF better = {} THEN cheapest
        ELSE sorted_by_price[CHOOSE i \in better :
                \A j \in better : sorted_by_price[i].stock >= sorted_by_price[j].stock]

_select_best_vendor(responses) ==
    LET in_stock_vendors ==
            SelectSeq(responses, LAMBDA x : x.stock > 0 /\ x.status = "IN_STOCK")
        sorted_by_price == SortedByPrice(in_stock_vendors)
        cheapest == sorted_by_price[1]
        better == { i \in 2..Len(sorted_by_price) :
                      /\ ExceedsThreshold(sorted_by_price[i], cheapest)
                      /\ sorted_by_price[i].stock > cheapest.stock }
    IN  IF in_stock_vendors = <<>> THEN None
        ELSE IF better = {} THEN cheapest
        ELSE sorted_by_price[CHOOSE i \in better : \A j \in better : i <= j]

ProductResponse_WithoutVendor(sku, best) ==
    [ sku       |-> sku,
      vendor    |-> "",
      price     |-> best.price,
      stock     |-> best.stock,
      status    |-> best.status,
      timestamp |-> best.timestamp ]

ProductResponse(sku, best) ==
    [ sku       |-> sku,
      vendor    |-> best.vendor_name,
      price     |-> best.price,
      stock     |-> best.stock,
      status    |-> best.status,
      timestamp |-> best.timestamp ]

(***************************************************************************)
(* History kept beside the breaker: it is read by the properties only.     *)
(***************************************************************************)
IsClean(b) == b.state = "closed" /\ b.failure_count = 0

AfterFailure(n) == IF n = NoTime THEN NoTime ELSE n + 1

AfterSuccess(b) == IF IsClean(b) THEN 0 ELSE NoTime

Called(v, op, b, ret) == [vendor |-> v, op |-> op, from |-> b.state, ret |-> ret]

\* The calls made to the breakers of a service whose every vendor call so
\* far failed: k[v] calls of can_execute and of record_failure on v.
CallsAfterFailedCalls(k) ==
    [v \in Vendors |-> [can_execute |-> k[v], record_success |-> 0, record_failure |-> k[v]]]

Counted(v, op) == [calls EXCEPT ![v][op] = @ + 1]

(***************************************************************************)
(* SpecBreaker: a client of one breaker.                                   *)
(***************************************************************************)
Tick ==
    /\ now + TickSeconds <= MaxTicks * TickSeconds
    /\ now' = now + TickSeconds
    /\ UNCHANGED <<breakers, last_call, since_clean, calls, service, http>>

CallCanExecute(v) ==
    /\ breakers[v].total_calls < MaxCalls
    /\ LET r == can_execute(breakers[v], now) IN
        /\ breakers' = [breakers EXCEPT ![v] = r.breaker]
        /\ last_call' = Called(v, "can_execute", breakers[v], r.ret)
    /\ calls' = Counted(v, "can_execute")
    /\ UNCHANGED <<now, since_clean, service, http>>

CallRecordSuccess(v) ==
    /\ breakers[v].success_count < MaxCalls
    /\ LET c == record_success(breakers[v], now) IN
        /\ breakers' = [breakers EXCEPT ![v] = c]
        /\ since_clean' = [since_clean EXCEPT ![v] = AfterSuccess(c)]
        /\ calls' = Counted(v, "record_success")
    /\ last_call' = Called(v, "record_success", breakers[v], TRUE)
    /\ UNCHANGED <<now, service, http>>

CallRecordFailure(v) ==
    /\ breakers[v].total_failures < MaxCalls
    /\ LET c == record_failure(breakers[v], now) IN
        /\ breakers' = [breakers EXCEPT ![v] = c]
        /\ since_clean' = [since_clean EXCEPT ![v] = AfterFailure(since_clean[v])]
        /\ calls' = Counted(v, "record_failure")
    /\ last_call' = Called(v, "record_failure", breakers[v], TRUE)
    /\ UNCHANGED <<now, service, http>>

CallGetMetrics(v) ==
    /\ get_metrics(breakers[v], now).vendor = v
    /\ UNCHANGED vars

(***************************************************************************)
(* Spec: get_best_vendor on the event loop.  A step runs one coroutine     *)
(* from the point where it was suspended to its next suspension.           *)
(***************************************************************************)
Pending == [kind |-> "pending"]

\* A task: where the coroutine stands, its attempt number and its result.
\* Beside them, for the properties: what can_execute answered, how often
\* get_product was called, and by how much the task's own steps raised
\* success_count and total_failures of the vendor's breaker; and the time
\* in milliseconds of the task's latest backoff sleep.
NoTask ==
    [pc |-> "none", attempt |-> 0, result |-> Pending,
     admitted |-> "unasked", fetches |-> 0, successes |-> 0, failures |-> 0,
     backoff |-> 0]

Max(a, b) == IF a >= b THEN a ELSE b

IdleReq == [pc |-> "idle", sku |-> "", responses |-> <<>>, result |-> Pending]

NoEntry == [present |-> FALSE]

\* get_best_vendor is called: it runs up to the await of the cache lookup.
GetBestVendor(r, sku) ==
    /\ reqs[r].pc = "idle"
    /\ resolves < MaxResolves
    /\ resolves' = resolves + 1
    /\ reqs' = [reqs EXCEPT ![r] = [IdleReq EXCEPT !.pc = "cache_get", !.sku = sku]]
    /\ UNCHANGED <<now, breakers, last_call, since_clean, calls, cache, tasks, http>>

\* CacheService.get_product: the entry of the key if the store answers and
\* holds one that has not expired, None otherwise.
CacheLookup(sku, ok) ==
    IF ok /\ cache[sku].present /\ now < cache[sku].expires
    THEN [kind |-> "product", value |-> cache[sku].value]
    ELSE None

CacheGetProduct_FansOutOnHit(r, ok) ==
    /\ reqs[r].pc = "cache_get"
    /\ LET cached_result == CacheLookup(reqs[r].sku, ok) IN
       reqs' = IF cached_result # None
               THEN [reqs EXCEPT ![r].pc = "returned", ![r].result = cached_result]
               ELSE [reqs EXCEPT ![r].pc = "gather"]
    /\ tasks' = [tasks EXCEPT ![r] = [v \in Vendors |-> [NoTask EXCEPT !.pc = "created"]]]
    /\ UNCHANGED <<now, breakers, last_call, since_clean, calls, cache, resolves, http>>

CacheGetProduct_PropagatesStoreError(r, ok) ==
    /\ reqs[r].pc = "cache_get"
    /\ LET cached_result == CacheLookup(reqs[r].sku, ok) IN
       IF ~ok
       THEN /\ reqs' = [reqs EXCEPT ![r].pc = "raised", ![r].result = Raised]
            /\ tasks' = tasks
       ELSE IF cached_result # None
       THEN /\ reqs' = [reqs EXCEPT ![r].pc = "returned", ![r].result = cached_result]
            /\ tasks' = tasks
       ELSE /\ reqs' = [reqs EXCEPT ![r].pc = "gather"]
            /\ tasks' = [tasks EXCEPT ![r] = [v \in Vendors |-> [NoTask EXCEPT !.pc = "created"]]]
    /\ UNCHANGED <<now, breakers, last_call, since_clean, calls, cache, resolves, http>>

CacheGetProduct_SingleFlight(r, ok) ==
    /\ reqs[r].pc = "cache_get"
    /\ LET cached_result == CacheLookup(reqs[r].sku, ok)
           in_flight == \E q \in (DOMAIN reqs) \ {r} :
                            reqs[q].pc = "gather" /\ reqs[q].sku = reqs[r].sku
       IN
       IF cached_result # None
       THEN /\ reqs' = [reqs EXCEPT ![r].pc = "returned", ![r].result = cached_result]
            /\ tasks' = tasks
       ELSE /\ reqs' = [reqs EXCEPT ![r].pc = "gather"]
            /\ tasks' = IF in_flight THEN tasks
                        ELSE [tasks EXCEPT ![r] = [v \in Vendors |-> [NoTask EXCEPT !.pc = "created"]]]
    /\ UNCHANGED <<now, breakers, last_call, since_clean, calls, cache, resolves, http>>

\* The cache lookup returns: a hit is returned at once; on a miss
\* _query_all_vendors creates one task per vendor and awaits gather.
CacheGetProduct(r, ok) ==
    /\ reqs[r].pc = "cache_get"
    /\ LET cached_result == CacheLookup(reqs[r].sku, ok) IN
       IF cached_result # None
       THEN /\ reqs' = [reqs EXCEPT ![r].pc = "returned", ![r].result = cached_result]
            /\ tasks' = tasks
       ELSE /\ reqs' = [reqs EXCEPT ![r].pc = "gather"]
            /\ tasks' = [tasks EXCEPT ![r] = [v \in Vendors |-> [NoTask EXCEPT !.pc = "created"]]]
    /\ UNCHANGED <<now, breakers, last_call, since_clean, calls, cache, resolves, http>>

VendorIndex(v) == CHOOSE i \in 1..Len(VendorNames) : VendorNames[i] = v

QueryVendor_IgnoresBreaker(r, v) ==
    /\ tasks[r][v].pc = "created"
    /\ \A w \in Vendors : VendorIndex(w) < VendorIndex(v) => tasks[r][w].pc # "created"
    /\ LET c == can_execute(breakers[v], now) IN
        /\ breakers' = [breakers EXCEPT ![v] = c.breaker]
        /\ tasks' = [tasks EXCEPT ![r][v] =
                [@ EXCEPT !.pc = "fetching", !.attempt = 1,
                          !.admitted = IF c.ret THEN "yes" ELSE "no", !.fetches = 1]]
    /\ calls' = Counted(v, "can_execute")
    /\ UNCHANGED <<now, last_call, since_clean, cache, reqs, resolves, http>>

\* _query_vendor_with_circuit_breaker starts (the loop starts the tasks of a
\* gather in the order they were created): it asks the breaker and either
\* returns None or calls the vendor, attempt 1.
QueryVendor(r, v) ==
    /\ tasks[r][v].pc = "created"
    /\ \A w \in Vendors : VendorIndex(w) < VendorIndex(v) => tasks[r][w].pc # "created"
    /\ LET c == can_execute(breakers[v], now) IN
        /\ breakers' = [breakers EXCEPT ![v] = c.breaker]
        /\ tasks' = [tasks EXCEPT ![r][v] =
                IF c.ret
                THEN [@ EXCEPT !.pc = "fetching", !.attempt = 1,
                               !.admitted = "yes", !.fetches = 1]
                ELSE [@ EXCEPT !.pc = "done", !.result = None, !.admitted = "no"]]
    /\ calls' = Counted(v, "can_execute")
    /\ UNCHANGED <<now, last_call, since_clean, cache, reqs, resolves, http>>

\* get_product returns within the timeout, a VendorResponse or None:
\* _query_vendor_with_retry returns it, the caller records the success.
VendorReturns(r, v) ==
    /\ tasks[r][v].pc = "fetching"
    /\ LET c == record_success(breakers[v], now) IN
        /\ \E response \in GetProduct(v, reqs[r].sku, now) :
            tasks' = [tasks EXCEPT ![r][v] =
                [@ EXCEPT !.pc = "done", !.result = response,
                          !.successes = @ + c.success_count - breakers[v].success_count,
                          !.failures = @ + c.total_failures - breakers[v].total_failures]]
        /\ breakers' = [breakers EXCEPT ![v] = c]
        /\ since_clean' = [since_clean EXCEPT ![v] = AfterSuccess(c)]
        /\ calls' = Counted(v, "record_success")
    /\ UNCHANGED <<now, last_call, cache, reqs, resolves, http>>

VendorFailsWith(r, v, error, retry) ==
    /\ tasks[r][v].pc = "fetching"
    /\ error \in {"timeout", "error"}
    /\ LET c == record_failure(breakers[v], now) IN
        /\ tasks' = [tasks EXCEPT ![r][v] =
                IF retry
                THEN [@ EXCEPT !.pc = "sleeping"]
                ELSE [@ EXCEPT !.pc = "done", !.result = Raised,
                          !.successes = @ + c.success_count - breakers[v].success_count,
                          !.failures = @ + c.total_failures - breakers[v].total_failures]]
        /\ breakers' = IF retry THEN breakers ELSE [breakers EXCEPT ![v] = c]
        /\ since_clean' = IF retry THEN since_clean
                          ELSE [since_clean EXCEPT ![v] = AfterFailure(since_clean[v])]
        /\ calls' = IF retry THEN calls ELSE Counted(v, "record_failure")
    /\ UNCHANGED <<now, last_call, cache, reqs, resolves, http>>

VendorFails_ReportsEachAttempt(r, v, error) ==
    /\ tasks[r][v].pc = "fetching"
    /\ error \in {"timeout", "error"}
    /\ LET c == record_failure(breakers[v], now)
           retry == tasks[r][v].attempt < VENDOR_MAX_RETRIES
       IN
        /\ tasks' = [tasks EXCEPT ![r][v] =
                [@ EXCEPT !.pc = IF retry THEN "sleeping" ELSE "done",
                          !.result = IF retry THEN @ ELSE Raised,
                          !.successes = @ + c.success_count - breakers[v].success_count,
                          !.failures = @ + c.total_failures - breakers[v].total_failures]]
        /\ breakers' = [breakers EXCEPT ![v] = c]
        /\ since_clean' = [since_clean EXCEPT ![v] = AfterFailure(since_clean[v])]
        /\ calls' = Counted(v, "record_failure")
    /\ UNCHANGED <<now, last_call, cache, reqs, resolves, http>>

VendorFails_OneMoreAttempt(r, v, error) ==
    VendorFailsWith(r, v, error, tasks[r][v].attempt <= VENDOR_MAX_RETRIES)

\* The first backoff, 0.1 s, in milliseconds.
BackoffBaseMs == 100

backoff_time_linear(attempt, error) == BackoffBaseMs * attempt

\* The time slept after failed attempt number `attempt`, in milliseconds.
\* The handler of a timeout and the handler of any other exception each
\* compute it.
backoff_time(attempt, error) ==
    IF error = "timeout"
    THEN BackoffBaseMs * 2 ^ (attempt - 1)
    ELSE BackoffBaseMs * 2 ^ (attempt - 1)

\* get_product raises ("error") or wait_for times out ("timeout"), under
\* the setting VENDOR_MAX_RETRIES = max_retries.  With attempts left the
\* coroutine sleeps for the backoff; with none left it raises, and the
\* caller records the failure and raises on.
VendorFailsUnder(r, v, error, max_retries) ==
    /\ tasks[r][v].pc = "fetching"
    /\ error \in {"timeout", "error"}
    /\ IF tasks[r][v].attempt < max_retries
       THEN /\ tasks' = [tasks EXCEPT ![r][v] =
                    [@ EXCEPT !.pc = "sleeping",
                              !.backoff = backoff_time(tasks[r][v].attempt, error)]]
            /\ UNCHANGED <<breakers, since_clean, calls>>
       ELSE /\ LET c == record_failure(breakers[v], now) IN
                /\ tasks' = [tasks EXCEPT ![r][v] =
                    [@ EXCEPT !.pc = "done", !.result = Raised,
                              !.successes = @ + c.success_count - breakers[v].success_count,
                              !.failures = @ + c.total_failures - breakers[v].total_failures]]
                /\ breakers' = [breakers EXCEPT ![v] = c]
                /\ since_clean' = [since_clean EXCEPT ![v] = AfterFailure(since_clean[v])]
                /\ calls' = Counted(v, "record_failure")
    /\ UNCHANGED <<now, last_call, cache, reqs, resolves, http>>

\* The same under the configured VENDOR_MAX_RETRIES.
VendorFails(r, v, error) == VendorFailsUnder(r, v, error, VENDOR_MAX_RETRIES)

\* The backoff sleep ends: _query_vendor_with_retry calls itself with
\* attempt + 1 and calls the vendor again.
BackoffDone(r, v) ==
    /\ tasks[r][v].pc = "sleeping"
    /\ tasks' = [tasks EXCEPT ![r][v] =
            [@ EXCEPT !.pc = "fetching", !.attempt = @ + 1, !.fetches = @ + 1]]
    /\ UNCHANGED <<now, breakers, last_call, since_clean, calls, cache, reqs, resolves, http>>

GatherResults(r) == [i \in 1..Len(VendorNames) |-> tasks[r][VendorNames[i]].result]

GatherReturns_FirstCompleted(r) ==
    /\ reqs[r].pc = "gather"
    /\ \E v \in Vendors : tasks[r][v].pc = "done"
    /\ LET vendor_responses ==
               SelectSeq(GatherResults(r), LAMBDA x : x.kind = "quote")
           fresh == _filter_by_freshness(vendor_responses, now)
           best_vendor == _select_best_vendor(fresh.value)
       IN  reqs' = [reqs EXCEPT ![r] =
             IF fresh.raised
             THEN [@ EXCEPT !.pc = "raised", !.responses = vendor_responses,
                            !.result = Raised]
             ELSE IF fresh.value = <<>> \/ best_vendor = None
             THEN [@ EXCEPT !.pc = "returned", !.responses = vendor_responses,
                            !.result = None]
             ELSE [@ EXCEPT !.pc = "cache_set", !.responses = vendor_responses,
                            !.result = [kind |-> "product",
                                        value |-> ProductResponse(reqs[r].sku, best_vendor)]]]
    /\ tasks' = [tasks EXCEPT ![r] = [v \in Vendors |-> NoTask]]
    /\ UNCHANGED <<now, breakers, last_call, since_clean, calls, cache, resolves, http>>

\* gather returns when every task is done, and the tasks are gone: the
\* successful responses are collected, filtered and the best is selected;
\* get_best_vendor then returns None, or awaits the cache write of the result,
\* or the filter has raised.
GatherReturns(r) ==
    /\ reqs[r].pc = "gather"
    /\ \A v \in Vendors : tasks[r][v].pc = "done"
    /\ LET vendor_responses == SuccessfulResponses(GatherResults(r))
           fresh == _filter_by_freshness(vendor_responses, now)
           best_vendor == _select_best_vendor(fresh.value)
       IN  reqs' = [reqs EXCEPT ![r] =
             IF fresh.raised
             THEN [@ EXCEPT !.pc = "raised", !.responses = vendor_responses,
                            !.result = Raised]
             ELSE IF fresh.value = <<>> \/ best_vendor = None
             THEN [@ EXCEPT !.pc = "returned", !.responses = vendor_responses,
                            !.result = None]
             ELSE [@ EXCEPT !.pc = "cache_set", !.responses = vendor_responses,
                            !.result = [kind |-> "product",
                                        value |-> ProductResponse(reqs[r].sku, best_vendor)]]]
    /\ tasks' = [tasks EXCEPT ![r] = [v \in Vendors |-> NoTask]]
    /\ UNCHANGED <<now, breakers, last_call, since_clean, calls, cache, resolves, http>>

CacheSetProduct_TtlInMinutes(r, ok) ==
    /\ reqs[r].pc = "cache_set"
    /\ cache' = IF ok
                THEN [cache EXCEPT ![reqs[r].sku] =
                        [present |-> TRUE, value |-> reqs[r].result.value,
                         expires |-> now + CACHE_TTL_SECONDS * 60]]
                ELSE cache
    /\ reqs' = [reqs EXCEPT ![r].pc = "returned"]
    /\ UNCHANGED <<now, breakers, last_call, since_clean, calls, tasks, resolves, http>>

CacheSetProduct_OneSlot(r, ok) ==
    /\ reqs[r].pc = "cache_set"
    /\ cache' = IF ok
                THEN [k \in SKUs |->
                        [present |-> TRUE, value |-> reqs[r].result.value,
                         expires |-> now + CACHE_TTL_SECONDS]]
                ELSE cache
    /\ reqs' = [reqs EXCEPT ![r].pc = "returned"]
    /\ UNCHANGED <<now, breakers, last_call, since_clean, calls, tasks, resolves, http>>

\* CacheService.set_product returns: the entry is stored with the configured
\* TTL unless the store failed, and get_best_vendor returns the result.
CacheSetProduct(r, ok) ==
    /\ reqs[r].pc = "cache_set"
    /\ cache' = IF ok
                THEN [cache EXCEPT ![reqs[r].sku] =
                        [present |-> TRUE, value |-> reqs[r].result.value,
                         expires |-> now + CACHE_TTL_SECONDS]]
                ELSE cache
    /\ reqs' = [reqs EXCEPT ![r].pc = "returned"]
    /\ UNCHANGED <<now, breakers, last_call, since_clean, calls, tasks, resolves, http>>

\* The caller has the result, or the exception.
Return(r) ==
    /\ reqs[r].pc \in {"returned", "raised"}
    /\ reqs' = [reqs EXCEPT ![r] = IdleReq]
    /\ UNCHANGED <<now, breakers, last_call, since_clean, calls, cache, tasks, resolves, http>>

Cancelled == [kind |-> "cancelled"]

Cancel_CaughtAsException(r) ==
    /\ reqs[r].pc = "gather"
    /\ reqs' = [reqs EXCEPT ![r].pc = "cancelled", ![r].result = Cancelled]
    /\ tasks' = [tasks EXCEPT ![r] = [v \in Vendors |->
            IF tasks[r][v].pc = "done" THEN tasks[r][v]
            ELSE [tasks[r][v] EXCEPT !.pc = "cancelled", !.result = Cancelled]]]
    /\ breakers' = [v \in Vendors |->
            IF tasks[r][v].pc = "fetching"
            THEN record_failure(breakers[v], now) ELSE breakers[v]]
    /\ since_clean' = [v \in Vendors |->
            IF tasks[r][v].pc = "fetching"
            THEN AfterFailure(since_clean[v]) ELSE since_clean[v]]
    /\ calls' = [v \in Vendors |->
            IF tasks[r][v].pc = "fetching"
            THEN [calls[v] EXCEPT !.record_failure = @ + 1] ELSE calls[v]]
    /\ UNCHANGED <<now, last_call, cache, resolves, http>>

\* The task that runs get_best_vendor is cancelled while it awaits gather.
\* gather cancels every vendor task that is not done; CancelledError is
\* raised in each at the await where it stands (before its first step, in
\* wait_for, in the backoff sleep) and, not being an Exception, passes the
\* handlers of _query_vendor_with_retry and
\* _query_vendor_with_circuit_breaker; it is raised out of get_best_vendor.
Cancel(r) ==
    /\ reqs[r].pc = "gather"
    /\ reqs' = [reqs EXCEPT ![r].pc = "cancelled", ![r].result = Cancelled]
    /\ tasks' = [tasks EXCEPT ![r] = [v \in Vendors |->
            IF tasks[r][v].pc = "done" THEN tasks[r][v]
            ELSE [tasks[r][v] EXCEPT !.pc = "cancelled", !.result = Cancelled]]]
    /\ UNCHANGED <<now, breakers, last_call, since_clean, calls, cache, resolves, http>>

(***************************************************************************)
(* The HTTP layer (main.py): rate_limit_middleware, the RateLimiter behind *)
(* it (middleware/rate_limit.py) and the handler of /products/{sku}.  A    *)
(* string the code takes apart is a sequence of its pieces.                *)
(***************************************************************************)
RATE_LIMIT_REQUESTS == 60

RATE_LIMIT_WINDOW_SECONDS == 60

\* "test-api-key-12345,demo-key-67890,dev-key-abcdef"
VALID_API_KEYS ==
    << "test", "-", "api", "-", "key", "-", "12345", ",",
       "demo", "-", "key", "-", "67890", ",",
       "dev", "-", "key", "-", "abcdef" >>

\* Splits a string at its commas.
RECURSIVE Split(_, _)
Split(s, piece) ==
    IF s = <<>> THEN <<piece>>
    ELSE IF Head(s) = "," THEN <<piece>> \o Split(Tail(s), <<>>)
    ELSE Split(Tail(s), Append(piece, Head(s)))

get_valid_api_keys_list ==
    SelectSeq(Split(VALID_API_KEYS, <<>>), LAMBDA key : key # <<>>)

\* a in s, for two strings.
IsSubstring(a, s) ==
    \E i \in 0..(Len(s) - Len(a)) : SubSeq(s, i + 1, i + Len(a)) = a

\* The x-api-key values sent: the empty string, a configured key, a piece
\* of a configured key, a string that spans the comma between two
\* configured keys, and a key that has nothing to do with them.
KeysSent ==
    { <<>>,
      <<"test", "-", "api", "-", "key", "-", "12345">>,
      <<"key">>,
      <<"12345", ",", "demo">>,
      <<"wrong", "-", "key">> }

NoHeader == [present |-> FALSE, value |-> <<>>]

ApiKeyHeaders == {NoHeader} \cup {[present |-> TRUE, value |-> k] : k \in KeysSent}

\* The {sku} of the path, character by character: a valid one, one too
\* short, one with a character that is not alphanumeric.
PathSkus ==
    { <<"A", "B", "C", "1", "2", "3">>,
      <<"A", "B">>,
      <<"A", "B", "C", "-", "1">> }

Alphanumerics ==
    { "A", "B", "C", "D", "E", "F", "G", "H", "I", "J", "K", "L", "M",
      "N", "O", "P", "Q", "R", "S", "T", "U", "V", "W", "X", "Y", "Z",
      "a", "b", "c", "d", "e", "f", "g", "h", "i", "j", "k", "l", "m",
      "n", "o", "p", "q", "r", "s", "t", "u", "v", "w", "x", "y", "z",
      "0", "1", "2", "3", "4", "5", "6", "7", "8", "9" }

\* validate_sku: TRUE when it returns, FALSE when it raises HTTPException.
validate_sku(sku) ==
    IF sku = <<>> THEN FALSE
    ELSE IF Len(sku) < 3 \/ Len(sku) > 20 THEN FALSE
    ELSE \A i \in 1..Len(sku) : sku[i] \in Alphanumerics

\* The HTTP requests that can be in progress at once; each is made once.
HttpReqs == {"q1", "q2"}

\* A request: where it stands, its path and header, the status answered,
\* the count check_rate_limit got from the store (0: none), and whether
\* check_rate_limit, validate_sku and get_best_vendor were called for it.
IdleRequest ==
    [pc |-> "idle", sku |-> <<>>, header |-> NoHeader, status |-> 0, count |-> 0,
     checked |-> FALSE, validated |-> FALSE, resolved |-> FALSE]

NoRequests == [q \in HttpReqs |-> IdleRequest]

\* A counter of the store: absent (count 0), or present with or without an
\* expiry.
NoCounter == [count |-> 0, expires |-> NoTime, created |-> NoTime]

NoRateLimits == [k \in KeysSent |-> NoCounter]

Answered(q, status) == [requests EXCEPT ![q].pc = "responded", ![q].status = status]

Receive_ListMembership(q, sku, header) ==
    /\ requests[q].pc = "idle"
    /\ LET arrived == [requests EXCEPT ![q].sku = sku, ![q].header = header]
           api_key == header.value
       IN  requests' =
             IF ~header.present \/ api_key = <<>>
             THEN [arrived EXCEPT ![q].pc = "responded", ![q].status = 401]
             ELSE IF \A i \in 1..Len(get_valid_api_keys_list) :
                        get_valid_api_keys_list[i] # api_key
             THEN [arrived EXCEPT ![q].pc = "responded", ![q].status = 403]
             ELSE [arrived EXCEPT ![q].pc = "increment", ![q].checked = TRUE]
    /\ UNCHANGED <<now, breakers, last_call, since_clean, calls, service, rate_limits>>

\* A request to /products/{sku} arrives at rate_limit_middleware, which
\* answers 401 or 403 or calls check_rate_limit, which awaits the store's
\* increment.
Receive(q, sku, header) ==
    /\ requests[q].pc = "idle"
    /\ LET arrived == [requests EXCEPT ![q].sku = sku, ![q].header = header]
           api_key == header.value
       IN  requests' =
             IF ~header.present \/ api_key = <<>>
             THEN [arrived EXCEPT ![q].pc = "responded", ![q].status = 401]
             ELSE IF ~IsSubstring(api_key, VALID_API_KEYS)
             THEN [arrived EXCEPT ![q].pc = "responded", ![q].status = 403]
             ELSE [arrived EXCEPT ![q].pc = "increment", ![q].checked = TRUE]
    /\ UNCHANGED <<now, breakers, last_call, since_clean, calls, service, rate_limits>>

AfterCount_Exclusive(q, count) ==
    IF count < RATE_LIMIT_REQUESTS
    THEN [requests EXCEPT ![q].pc = "handler", ![q].count = count]
    ELSE [requests EXCEPT ![q].pc = "responded", ![q].status = 429, ![q].count = count]

\* check_rate_limit after the count is known: within the limit the
\* middleware calls the handler, beyond it answers 429.
AfterCount(q, count) ==
    IF count <= RATE_LIMIT_REQUESTS
    THEN [requests EXCEPT ![q].pc = "handler", ![q].count = count]
    ELSE [requests EXCEPT ![q].pc = "responded", ![q].status = 429, ![q].count = count]

\* The store's INCR returns, or fails: a failure is caught by
\* check_rate_limit, which then allows the request.
Increment(q, ok) ==
    /\ requests[q].pc = "increment"
    /\ LET key == requests[q].header.value
           old == rate_limits[key]
           live == old.count > 0 /\ (old.expires = NoTime \/ now < old.expires)
           count == IF live THEN old.count + 1 ELSE 1
       IN  IF ok
           THEN /\ rate_limits' = [rate_limits EXCEPT ![key] =
                        [count   |-> count,
                         expires |-> IF live THEN old.expires ELSE NoTime,
                         created |-> IF live THEN old.created ELSE now]]
                /\ requests' = IF count = 1
                               THEN [requests EXCEPT ![q].pc = "expire", ![q].count = count]
                               ELSE AfterCount(q, count)
           ELSE /\ rate_limits' = rate_limits
                /\ requests' = [requests EXCEPT ![q].pc = "handler"]
    /\ UNCHANGED <<now, breakers, last_call, since_clean, calls, service>>

\* The store's EXPIRE returns, or fails: CacheService.expire returns False
\* then, and check_rate_limit goes on.
Expire(q, ok) ==
    /\ requests[q].pc = "expire"
    /\ LET key == requests[q].header.value IN
       rate_limits' = IF ok /\ rate_limits[key].count > 0
                      THEN [rate_limits EXCEPT ![key].expires = now + RATE_LIMIT_WINDOW_SECONDS]
                      ELSE rate_limits
    /\ requests' = AfterCount(q, requests[q].count)
    /\ UNCHANGED <<now, breakers, last_call, since_clean, calls, service>>

\* The request's task is cancelled while check_rate_limit awaits the
\* store's EXPIRE (the client went away, the server shuts down):
\* CancelledError is no Exception, so it passes the except clause and the
\* request ends without an answer.  The EXPIRE is not carried out.
Interrupt(q) ==
    /\ requests[q].pc = "expire"
    /\ requests' = [requests EXCEPT ![q].pc = "cancelled"]
    /\ UNCHANGED <<now, breakers, last_call, since_clean, calls, service, rate_limits>>

\* Windows of the rate limiter that the clock passes.
MaxWindows == 1

\* A window's length of time passes.  A check takes no time to speak of
\* against a window: none is between its INCR and its EXPIRE meanwhile.
WindowPasses ==
    /\ now < MaxWindows * RATE_LIMIT_WINDOW_SECONDS
    /\ \A q \in HttpReqs : requests[q].pc # "expire"
    /\ now' = now + RATE_LIMIT_WINDOW_SECONDS
    /\ UNCHANGED <<breakers, last_call, since_clean, calls, service, http>>

\* get_product, the handler: it validates the SKU and awaits
\* get_best_vendor.
Handler(q) ==
    /\ requests[q].pc = "handler"
    /\ IF validate_sku(requests[q].sku)
       THEN /\ requests' = [requests EXCEPT ![q].pc = "resolving", ![q].validated = TRUE,
                                            ![q].resolved = TRUE]
            /\ resolves' = resolves + 1
       ELSE /\ requests' = [requests EXCEPT ![q].pc = "responded", ![q].status = 400,
                                            ![q].validated = TRUE]
            /\ resolves' = resolves
    /\ UNCHANGED <<now, breakers, last_call, since_clean, calls, cache, reqs, tasks,
                   rate_limits>>

\* get_best_vendor returns a product or None, or raises.
Respond(q, outcome) ==
    /\ requests[q].pc = "resolving"
    /\ outcome \in {"product", "none", "raised"}
    /\ requests' = Answered(q, IF outcome = "product" THEN 200
                               ELSE IF outcome = "none" THEN 404 ELSE 500)
    /\ UNCHANGED <<now, breakers, last_call, since_clean, calls, service, rate_limits>>

Init ==
    /\ now = 0
    /\ breakers = [v \in Vendors |-> CircuitBreaker(v)]
    /\ last_call = [vendor |-> "", op |-> "none", from |-> "closed", ret |-> TRUE]
    /\ since_clean = [v \in Vendors |-> 0]
    /\ calls = CallsAfterFailedCalls(since_clean)
    /\ cache = [k \in SKUs |-> NoEntry]
    /\ reqs = [r \in Reqs |-> IdleReq]
    /\ tasks = [r \in Reqs |-> [v \in Vendors |-> NoTask]]
    /\ resolves = 0
    /\ requests = NoRequests
    /\ rate_limits = NoRateLimits

\* The breaker of a VendorService that has so far made k vendor calls, at
\* time 0, each of which failed.
RECURSIVE AfterFailedCalls(_, _)
AfterFailedCalls(b, k) ==
    IF k = 0 THEN b
    ELSE record_failure(can_execute(AfterFailedCalls(b, k - 1), 0).breaker, 0)

\* The entry for sku that a get_best_vendor call which selected
\* VendorThree's quote stored at time t.  The store outlives the service and
\* is shared by its instances.
StoredAt(sku, t) ==
    LET quote == CHOOSE q \in VendorThreeGetProduct(sku, t) : q.timestamp.tzinfo = "naive"
    IN  [present |-> TRUE, value |-> ProductResponse(sku, quote),
         expires |-> t + CACHE_TTL_SECONDS]

\* The histories of the breakers the service is met with: each breaker
\* fresh, one failure short of opening, or just opened.
BreakerHistories ==
    [Vendors -> {0, CIRCUIT_BREAKER_FAILURE_THRESHOLD - 1,
                 CIRCUIT_BREAKER_FAILURE_THRESHOLD}]

\* The service is met with an empty store and breakers of any history, or
\* with breakers of one and the same history and a store that holds for one
\* key an entry that expires at the first step of the clock.
InitService ==
    /\ now = 0
    /\ \/ /\ since_clean \in BreakerHistories
          /\ cache = [k \in SKUs |-> NoEntry]
       \/ /\ since_clean \in {h \in BreakerHistories : \A v, w \in Vendors : h[v] = h[w]}
          /\ cache = [k \in SKUs |-> IF k = "ABC123"
                                      THEN StoredAt(k, TickSeconds - CACHE_TTL_SECONDS)
                                      ELSE NoEntry]
    /\ breakers = [v \in Vendors |-> AfterFailedCalls(CircuitBreaker(v), since_clean[v])]
    /\ calls = CallsAfterFailedCalls(since_clean)
    /\ last_call = [vendor |-> "", op |-> "none", from |-> "closed", ret |-> TRUE]
    /\ reqs = [r \in Reqs |-> IdleReq]
    /\ tasks = [r \in Reqs |-> [v \in Vendors |-> NoTask]]
    /\ resolves = 0
    /\ requests = NoRequests
    /\ rate_limits = NoRateLimits

NextBreaker ==
    \/ Tick
    \/ \E v \in ProbeVendors : CallCanExecute(v)
    \/ \E v \in ProbeVendors : CallRecordSuccess(v)
    \/ \E v \in ProbeVendors : CallRecordFailure(v)
    \/ \E v \in ProbeVendors : CallGetMetrics(v)

SpecBreaker == Init /\ [][NextBreaker]_vars

Next ==
    \/ Tick
    \/ \E r \in Reqs, sku \in SKUs : GetBestVendor(r, sku)
    \/ \E r \in Reqs, ok \in BOOLEAN : CacheGetProduct(r, ok)
    \/ \E r \in Reqs, v \in Vendors : QueryVendor(r, v)
    \/ \E r \in Reqs, v \in Vendors : VendorReturns(r, v)
    \/ \E r \in Reqs, v \in Vendors, error \in {"timeout", "error"} : VendorFails(r, v, error)
    \/ \E r \in Reqs, v \in Vendors : BackoffDone(r, v)
    \/ \E r \in Reqs : GatherReturns(r)
    \/ \E r \in Reqs, ok \in BOOLEAN : CacheSetProduct(r, ok)
    \/ \E r \in Reqs : Return(r)

Spec == InitService /\ [][Next]_vars

(***************************************************************************)
(* SpecConcurrent: two get_best_vendor calls on one event loop.            *)
(***************************************************************************)
ConcurrentReqs == {"r1", "r2"}

\* Two calls have been made, for any two keys, and both wait for the cache
\* lookup.  The breakers of VendorOne and VendorTwo have just opened, so
\* that the calls meet at VendorThree's breaker, which is closed, fresh or
\* one failure short of opening.
InitConcurrent ==
    /\ now = 0
    /\ since_clean \in {h \in BreakerHistories :
            /\ h["VendorOne"] = CIRCUIT_BREAKER_FAILURE_THRESHOLD
            /\ h["VendorTwo"] = CIRCUIT_BREAKER_FAILURE_THRESHOLD
            /\ h["VendorThree"] < CIRCUIT_BREAKER_FAILURE_THRESHOLD}
    /\ breakers = [v \in Vendors |-> AfterFailedCalls(CircuitBreaker(v), since_clean[v])]
    /\ calls = CallsAfterFailedCalls(since_clean)
    /\ last_call = [vendor |-> "", op |-> "none", from |-> "closed", ret |-> TRUE]
    /\ cache = [k \in SKUs |-> NoEntry]
    /\ reqs \in [ConcurrentReqs ->
                    {[IdleReq EXCEPT !.pc = "cache_get", !.sku = sku] : sku \in SKUs}]
    /\ tasks = [r \in ConcurrentReqs |-> [v \in Vendors |-> NoTask]]
    /\ resolves = Cardinality(ConcurrentReqs)
    /\ requests = NoRequests
    /\ rate_limits = NoRateLimits

NextConcurrent ==
    \/ \E r \in ConcurrentReqs, ok \in BOOLEAN : CacheGetProduct(r, ok)
    \/ \E r \in ConcurrentReqs, v \in Vendors : QueryVendor(r, v)
    \/ \E r \in ConcurrentReqs, v \in Vendors : VendorReturns(r, v)
    \/ \E r \in ConcurrentReqs, v \in Vendors, error \in {"timeout", "error"} :
            VendorFails(r, v, error)
    \/ \E r \in ConcurrentReqs, v \in Vendors : BackoffDone(r, v)
    \/ \E r \in ConcurrentReqs : GatherReturns(r)
    \/ \E r \in ConcurrentReqs, ok \in BOOLEAN : CacheSetProduct(r, ok)
    \/ \E r \in ConcurrentReqs : Return(r)

SpecConcurrent == InitConcurrent /\ [][NextConcurrent]_vars

(***************************************************************************)
(* SpecRetry: one get_best_vendor call of a service whose                  *)
(* VENDOR_MAX_RETRIES is set to MaxRetriesSetting, so that a vendor call   *)
(* sleeps more than once.                                                  *)
(***************************************************************************)
MaxRetriesSetting == 4

NextRetry ==
    \/ \E r \in Reqs, sku \in SKUs : GetBestVendor(r, sku)
    \/ \E r \in Reqs, ok \in BOOLEAN : CacheGetProduct(r, ok)
    \/ \E r \in Reqs, v \in Vendors : QueryVendor(r, v)
    \/ \E r \in Reqs, v \in Vendors : VendorReturns(r, v)
    \/ \E r \in Reqs, v \in Vendors, error \in {"timeout", "error"} :
            VendorFailsUnder(r, v, error, MaxRetriesSetting)
    \/ \E r \in Reqs, v \in Vendors : BackoffDone(r, v)
    \/ \E r \in Reqs : GatherReturns(r)
    \/ \E r \in Reqs, ok \in BOOLEAN : CacheSetProduct(r, ok)
    \/ \E r \in Reqs : Return(r)

SpecRetry == Init /\ [][NextRetry]_vars

(***************************************************************************)
(* SpecCancel: the two calls of SpecConcurrent, either of which can be     *)
(* cancelled by its caller during the fan-out.                             *)
(***************************************************************************)
NextCancel ==
    \/ NextConcurrent
    \/ \E r \in ConcurrentReqs : Cancel(r)

SpecCancel == InitConcurrent /\ [][NextCancel]_vars

(***************************************************************************)
(* SpecManager: a client of a CircuitBreakerManager.  It registers the     *)
(* vendors, looks breakers up, calls their methods, resets them and reads  *)
(* the metrics, in any order, while the clock advances.                    *)
(***************************************************************************)
\* Calls of can_execute, record_success and record_failure the client makes
\* in all.
MaxManagerCalls == 5

ManagerCalls ==
    LET n(v) == calls[v].can_execute + calls[v].record_success + calls[v].record_failure
    IN  n("VendorOne") + n("VendorTwo") + n("VendorThree")

Returned(name, op, ret) == [vendor |-> name, op |-> op, from |-> "", ret |-> ret]

\* CircuitBreakerManager.__init__: no breaker is registered.
InitManager ==
    /\ now = 0
    /\ breakers = NoBreakers
    /\ last_call = [vendor |-> "", op |-> "none", from |-> "closed", ret |-> TRUE]
    /\ since_clean = [v \in Vendors |-> 0]
    /\ calls = CallsAfterFailedCalls(since_clean)
    /\ cache = [k \in SKUs |-> NoEntry]
    /\ reqs = [r \in Reqs |-> IdleReq]
    /\ tasks = [r \in Reqs |-> [v \in Vendors |-> NoTask]]
    /\ resolves = 0
    /\ requests = NoRequests
    /\ rate_limits = NoRateLimits

\* A name is registered for the first time in the order of VendorNames, and
\* again at any time.  The clock of SpecManager starts once the three
\* vendors are registered: VendorService.__init__ registers them in one go.
Register(name) ==
    /\ \/ name \in DOMAIN breakers
       \/ /\ Cardinality(DOMAIN breakers) < Len(VendorNames)
          /\ name = VendorNames[Cardinality(DOMAIN breakers) + 1]
    /\ LET r == register(breakers, name, now) IN
        /\ breakers' = r.breakers
        /\ last_call' = Returned(name, "register", r.ret)
    /\ UNCHANGED <<now, since_clean, calls, service, http>>

GetBreaker(name) ==
    /\ LET r == get_breaker(breakers, name, now) IN
        /\ breakers' = r.breakers
        /\ last_call' = Returned(name, "get_breaker", r.ret)
    /\ UNCHANGED <<now, since_clean, calls, service, http>>

CallReset(v) ==
    /\ v \in DOMAIN breakers
    /\ breakers' = [breakers EXCEPT ![v] = reset(breakers[v], now)]
    /\ since_clean' = [since_clean EXCEPT ![v] = 0]
    /\ last_call' = Called(v, "reset", breakers[v], TRUE)
    /\ UNCHANGED <<now, calls, service, http>>

CallResetAll ==
    /\ breakers' = reset_all(breakers, now)
    /\ since_clean' = [v \in Vendors |-> IF v \in DOMAIN breakers THEN 0 ELSE since_clean[v]]
    /\ last_call' = Returned("", "reset_all", TRUE)
    /\ UNCHANGED <<now, calls, service, http>>

CallGetAllMetrics_Probing ==
    /\ breakers' = [v \in DOMAIN breakers |->
            IF breakers[v].state = "open" /\ _should_attempt_reset(breakers[v], now)
            THEN _transition_to_half_open(breakers[v], now)
            ELSE breakers[v]]
    /\ last_call' = Returned("", "get_all_metrics", get_all_metrics(breakers, now))
    /\ UNCHANGED <<now, since_clean, calls, service, http>>

CallGetAllMetrics ==
    /\ last_call' = Returned("", "get_all_metrics", get_all_metrics(breakers, now))
    /\ UNCHANGED <<now, breakers, since_clean, calls, service, http>>

CallGetHealthyVendors ==
    /\ last_call' = Returned("", "get_healthy_vendors", get_healthy_vendors(breakers))
    /\ UNCHANGED <<now, breakers, since_clean, calls, service, http>>

CallGetUnhealthyVendors ==
    /\ last_call' = Returned("", "get_unhealthy_vendors", get_unhealthy_vendors(breakers))
    /\ UNCHANGED <<now, breakers, since_clean, calls, service, http>>

NextManager ==
    \/ DOMAIN breakers = Vendors /\ Tick
    \/ \E name \in Vendors : Register(name)
    \/ \E name \in Vendors : GetBreaker(name)
    \/ \E v \in ProbeVendors \cap DOMAIN breakers :
            ManagerCalls < MaxManagerCalls /\ CallCanExecute(v)
    \/ \E v \in ProbeVendors \cap DOMAIN breakers :
            ManagerCalls < MaxManagerCalls /\ CallRecordSuccess(v)
    \/ \E v \in ProbeVendors \cap DOMAIN breakers :
            ManagerCalls < MaxManagerCalls /\ CallRecordFailure(v)
    \/ \E v \in ProbeVendors \cap DOMAIN breakers : CallReset(v)
    \/ CallResetAll
    \/ CallGetAllMetrics
    \/ CallGetHealthyVendors
    \/ CallGetUnhealthyVendors

SpecManager == InitManager /\ [][NextManager]_vars

(***************************************************************************)
(* SpecPure: _filter_by_freshness and _select_best_vendor applied to lists *)
(* of quotes.                                                              *)
(***************************************************************************)
\* Longest list of quotes.
MaxQuotes == 3

\* The clock when the functions are applied: the cutoff is then at 1.
PureNow == DATA_FRESHNESS_MINUTES * 60 + 1

\* Prices in cents: a cheapest price, then 8%, 10%, 15% and 20% above it.
QuotePrices == {10000, 10800, 11000, 11500, 12000}

QuoteStocks == {0, 5, 50, 60}

\* Quotes for the selection: every price with every stock, the status
\* following the stock as the normalizers set it, and two quotes whose
\* status contradicts their stock, which VendorResponse also accepts.
SelectionQuotes ==
    { [price |-> p, stock |-> k,
       status |-> IF k > 0 THEN "IN_STOCK" ELSE "OUT_OF_STOCK",
       timestamp |-> [t |-> PureNow, tzinfo |-> "naive"]] :
         p \in QuotePrices, k \in QuoteStocks }
    \cup { [price |-> 10000, stock |-> 50, status |-> "OUT_OF_STOCK",
            timestamp |-> [t |-> PureNow, tzinfo |-> "naive"]],
           [price |-> 10000, stock |-> 0, status |-> "IN_STOCK",
            timestamp |-> [t |-> PureNow, tzinfo |-> "naive"]] }

\* Quotes for the filter: observed one second before the cutoff, at the
\* cutoff and one second after it, the timestamp with the UTC offset that
\* the normalizers of VendorOne and VendorTwo parse, or without offset.
FreshnessQuotes ==
    { [price |-> 10000, stock |-> 5, status |-> "IN_STOCK",
       timestamp |-> [t |-> t, tzinfo |-> tz]] :
         t \in {PureNow - DATA_FRESHNESS_MINUTES * 60 + d : d \in {0 - 1, 0, 1}},
         tz \in {"naive", "utc"} }

\* The i-th quote of a list comes from the i-th vendor.
QuoteVendor(i) ==
    IF i <= Len(VendorNames) THEN VendorNames[i] ELSE "Vendor" \o ToString(i)

QuoteList(qs) ==
    [i \in 1..Len(qs) |->
        VendorResponse(QuoteVendor(i), "ABC123", qs[i].price, qs[i].stock,
                       qs[i].status, qs[i].timestamp)]

InitPure ==
    /\ now = PureNow
    /\ breakers = [v \in Vendors |-> CircuitBreaker(v)]
    /\ last_call = [vendor |-> "", op |-> "none", from |-> "closed", ret |-> TRUE]
    /\ since_clean = [v \in Vendors |-> 0]
    /\ calls = CallsAfterFailedCalls(since_clean)
    /\ cache = [k \in SKUs |-> NoEntry]
    /\ \E n \in 0..MaxQuotes, pool \in {SelectionQuotes, FreshnessQuotes} :
        \E qs \in [1..n -> pool] :
            reqs = [r \in Reqs |->
                      [pc |-> "input", sku |-> "ABC123",
                       responses |-> QuoteList(qs), result |-> Pending]]
    /\ tasks = [r \in Reqs |-> [v \in Vendors |-> NoTask]]
    /\ resolves = 0
    /\ requests = NoRequests
    /\ rate_limits = NoRateLimits

\* fresh_responses = self._filter_by_freshness(vendor_responses)
ApplyFilterByFreshness(r) ==
    /\ reqs[r].pc = "input"
    /\ LET fresh == _filter_by_freshness(reqs[r].responses, now) IN
       reqs' = [reqs EXCEPT ![r].pc = "filtered",
                            ![r].result = IF fresh.raised THEN Raised
                                          ELSE [kind |-> "list", value |-> fresh.value]]
    /\ UNCHANGED <<now, breakers, last_call, since_clean, calls, cache, tasks, resolves, http>>

\* best_vendor = self._select_best_vendor(fresh_responses)
ApplySelectBestVendor(r) ==
    /\ reqs[r].pc = "input"
    /\ reqs' = [reqs EXCEPT ![r].pc = "selected",
                            ![r].result = _select_best_vendor(reqs[r].responses)]
    /\ UNCHANGED <<now, breakers, last_call, since_clean, calls, cache, tasks, resolves, http>>

NextPure ==
    \/ \E r \in Reqs : ApplyFilterByFreshness(r)
    \/ \E r \in Reqs : ApplySelectBestVendor(r)

SpecPure == InitPure /\ [][NextPure]_vars

(***************************************************************************)
(* SpecNormalize: _normalize_response of VendorOne and of VendorTwo        *)
(* applied to raw responses.                                               *)
(***************************************************************************)
\* Raw stock: null, none, one, the assumed five, more.
RawStocks == {NoStock, 0, 1, 5, 10}

\* Raw prices, in cents; a VendorResponse cannot be built with the first.
RawPrices == {0, 8999, 9999}

VendorOneRawResponses ==
    { [ product_id          |-> sku,
        quantity            |-> stock,
        unit_price          |-> price,
        availability_status |-> status,
        last_updated        |-> IsoformatZ(PureNow) ] :
      sku \in SKUs, stock \in RawStocks, price \in RawPrices,
      status \in {"IN_STOCK", "OUT_OF_STOCK"} }

VendorTwoRawResponses ==
    { [ sku                |-> sku,
        stock_count        |-> stock,
        price_amount       |-> price,
        in_stock           |-> flag,
        response_timestamp |-> IsoformatZ(PureNow) ] :
      sku \in SKUs, stock \in RawStocks, price \in RawPrices, flag \in BOOLEAN }

\* One raw response of either vendor is about to be normalized.
InitNormalize ==
    /\ now = PureNow
    /\ breakers = [v \in Vendors |-> CircuitBreaker(v)]
    /\ last_call = [vendor |-> "", op |-> "none", from |-> "closed", ret |-> TRUE]
    /\ since_clean = [v \in Vendors |-> 0]
    /\ calls = CallsAfterFailedCalls(since_clean)
    /\ cache = [k \in SKUs |-> NoEntry]
    /\ \/ \E raw \in VendorOneRawResponses :
            reqs = [r \in Reqs |-> [IdleReq EXCEPT !.pc = "raw_one", !.sku = raw.product_id,
                                                   !.responses = <<raw>>]]
       \/ \E raw \in VendorTwoRawResponses :
            reqs = [r \in Reqs |-> [IdleReq EXCEPT !.pc = "raw_two", !.sku = raw.sku,
                                                   !.responses = <<raw>>]]
    /\ tasks = [r \in Reqs |-> [v \in Vendors |-> NoTask]]
    /\ resolves = 0
    /\ requests = NoRequests
    /\ rate_limits = NoRateLimits

ApplyVendorOneNormalize(r) ==
    /\ reqs[r].pc = "raw_one"
    /\ reqs' = [reqs EXCEPT ![r].pc = "normalized",
                            ![r].result = VendorOneNormalize(reqs[r].responses[1])]
    /\ UNCHANGED <<now, breakers, last_call, since_clean, calls, cache, tasks, resolves, http>>

ApplyVendorTwoNormalize(r) ==
    /\ reqs[r].pc = "raw_two"
    /\ reqs' = [reqs EXCEPT ![r].pc = "normalized",
                            ![r].result = VendorTwoNormalize(reqs[r].responses[1])]
    /\ UNCHANGED <<now, breakers, last_call, since_clean, calls, cache, tasks, resolves, http>>

NextNormalize ==
    \/ \E r \in Reqs : ApplyVendorOneNormalize(r)
    \/ \E r \in Reqs : ApplyVendorTwoNormalize(r)

SpecNormalize == InitNormalize /\ [][NextNormalize]_vars

(***************************************************************************)
(* SpecHttp: requests to /products/{sku} pass the middleware, the rate     *)
(* limiter and the handler, two at a time.  get_best_vendor itself is the  *)
(* subject of Spec; here it is called and answers.                         *)
(***************************************************************************)
\* No counter exists yet, or the counter of the first configured key is one
\* request short of the limit in a window that began just now.
InitHttp ==
    /\ now = 0
    /\ breakers = [v \in Vendors |-> CircuitBreaker(v)]
    /\ last_call = [vendor |-> "", op |-> "none", from |-> "closed", ret |-> TRUE]
    /\ since_clean = [v \in Vendors |-> 0]
    /\ calls = CallsAfterFailedCalls(since_clean)
    /\ cache = [k \in SKUs |-> NoEntry]
    /\ reqs = [r \in Reqs |-> IdleReq]
    /\ tasks = [r \in Reqs |-> [v \in Vendors |-> NoTask]]
    /\ resolves = 0
    /\ requests = NoRequests
    /\ \/ rate_limits = NoRateLimits
       \/ rate_limits = [NoRateLimits EXCEPT ![get_valid_api_keys_list[1]] =
                            [count |-> RATE_LIMIT_REQUESTS - 1,
                             expires |-> RATE_LIMIT_WINDOW_SECONDS,
                             created |-> 0]]

NextHttp ==
    \/ \E q \in HttpReqs, sku \in PathSkus, header \in ApiKeyHeaders : Receive(q, sku, header)
    \/ \E q \in HttpReqs, ok \in BOOLEAN : Increment(q, ok)
    \/ \E q \in HttpReqs, ok \in BOOLEAN : Expire(q, ok)
    \/ \E q \in HttpReqs : Handler(q)
    \/ \E q \in HttpReqs, outcome \in {"product", "none", "raised"} : Respond(q, outcome)

SpecHttp == InitHttp /\ [][NextHttp]_vars

(***************************************************************************)
(* SpecRateLimit: the same requests while windows of the rate limiter      *)
(* pass and a request may be cancelled inside check_rate_limit.            *)
(***************************************************************************)
NextRateLimit ==
    \/ NextHttp
    \/ WindowPasses
    \/ \E q \in HttpReqs : Interrupt(q)

SpecRateLimit == InitHttp /\ [][NextRateLimit]_vars

(***************************************************************************)
(* Properties of the breaker (SpecBreaker).  A step is a call of           *)
(* can_execute, record_success or record_failure on v when it raises       *)
(* total_calls, success_count or total_failures of v's breaker.            *)
(***************************************************************************)
IsCanExecute(v) == breakers'[v].total_calls = breakers[v].total_calls + 1

IsRecordSuccess(v) == breakers'[v].success_count = breakers[v].success_count + 1

IsRecordFailure(v) == breakers'[v].total_failures = breakers[v].total_failures + 1

InCooldown(b, t) ==
    /\ b.last_failure_time # NoTime
    /\ t < b.last_failure_time + CIRCUIT_BREAKER_TIMEOUT_SECONDS

BreakerStates == {"closed", "open", "half_open"}

BreakerEdges ==
    { <<"closed", "open">>, <<"open", "half_open">>,
      <<"half_open", "closed">>, <<"half_open", "open">> }

\* C1: from a closed breaker with failure counter 0, after exactly
\* CIRCUIT_BREAKER_FAILURE_THRESHOLD record_failure calls with no
\* record_success in between the breaker is open, and every can_execute made
\* before CIRCUIT_BREAKER_TIMEOUT_SECONDS have passed since the last recorded
\* failure returns false and leaves it open; after fewer than threshold such
\* failures the breaker is closed and can_execute returns true.
C1_ThresholdOpens ==
    [][\A v \in Vendors :
        LET b == breakers[v]
            n == since_clean[v]
        IN  /\ (since_clean'[v] = CIRCUIT_BREAKER_FAILURE_THRESHOLD
                    /\ InCooldown(breakers'[v], now'))
                => breakers'[v].state = "open"
            /\ (since_clean'[v] >= 0
                    /\ since_clean'[v] < CIRCUIT_BREAKER_FAILURE_THRESHOLD)
                => /\ breakers'[v].state = "closed"
                   /\ breakers'[v].failure_count = since_clean'[v]
            /\ (IsCanExecute(v) /\ n = CIRCUIT_BREAKER_FAILURE_THRESHOLD
                    /\ InCooldown(b, now))
                => /\ last_call'.ret = FALSE
                   /\ breakers'[v].state = "open"
            /\ (IsCanExecute(v) /\ n >= 0
                    /\ n < CIRCUIT_BREAKER_FAILURE_THRESHOLD)
                => /\ last_call'.ret = TRUE
                   /\ breakers'[v].state = "closed"
      ]_vars

\* C1 witness: the threshold-th consecutive failure has opened the breaker and
\* a can_execute made during the cooldown has returned false.
C1_Witness ==
    \E v \in Vendors :
        /\ since_clean[v] = CIRCUIT_BREAKER_FAILURE_THRESHOLD
        /\ breakers[v].state = "open"
        /\ last_call = [vendor |-> v, op |-> "can_execute", from |-> "open", ret |-> FALSE]

\* C2: on an open breaker a can_execute made once the cooldown since the last
\* failure has elapsed returns true and moves the breaker to half_open, the
\* breaker leaves open for half_open in no other way, and a record_success
\* on the half_open breaker closes it with failure counter 0.
C2_CooldownProbeCloses ==
    [][\A v \in Vendors :
        LET b == breakers[v] IN
        /\ (IsCanExecute(v) /\ b.state = "open" /\ ~InCooldown(b, now))
            => /\ last_call'.ret = TRUE
               /\ breakers'[v].state = "half_open"
        /\ (b.state = "open" /\ breakers'[v].state = "half_open")
            => IsCanExecute(v) /\ ~InCooldown(b, now)
        /\ (IsRecordSuccess(v) /\ b.state = "half_open")
            => /\ breakers'[v].state = "closed"
               /\ breakers'[v].failure_count = 0
      ]_vars

\* C2 witness: a breaker that was opened has been probed at the very end of
\* its cooldown and closed by the success of the probe.
C2_Witness ==
    \E v \in Vendors :
        /\ last_call = [vendor |-> v, op |-> "record_success", from |-> "half_open", ret |-> TRUE]
        /\ breakers[v].state = "closed"
        /\ breakers[v].failure_count = 0
        /\ breakers[v].last_state_change
             = breakers[v].last_failure_time + CIRCUIT_BREAKER_TIMEOUT_SECONDS

\* C3: a record_failure on a half_open breaker moves it to open, whatever
\* its counters are.
C3_ProbeFailureReopens ==
    [][\A v \in Vendors :
        (IsRecordFailure(v) /\ breakers[v].state = "half_open")
            => breakers'[v].state = "open"
      ]_vars

\* C3 witness: a failure has been recorded on a half_open breaker that had a
\* success in its history.
C3_Witness ==
    \E v \in Vendors :
        /\ last_call = [vendor |-> v, op |-> "record_failure", from |-> "half_open", ret |-> TRUE]
        /\ breakers[v].success_count > 0

\* C4: the state of a breaker is always closed, open or half_open, and it
\* changes only closed->open, open->half_open, half_open->closed or
\* half_open->open.
C4_OnlyLegalTransitions ==
    [][\A v \in Vendors :
        /\ breakers'[v].state \in BreakerStates
        /\ breakers'[v].state # breakers[v].state
            => <<breakers[v].state, breakers'[v].state>> \in BreakerEdges
      ]_vars

\* C4 witness: a breaker that has been open and half_open is closed again,
\* with calls of all three methods behind it.
C4_Witness ==
    \E v \in Vendors :
        /\ breakers[v].state = "closed"
        /\ breakers[v].total_failures >= CIRCUIT_BREAKER_FAILURE_THRESHOLD
        /\ breakers[v].last_state_change > 0
        /\ breakers[v].total_calls > 0
        /\ breakers[v].success_count > 1

\* ---------------------------------------------------------------------
\* Properties of the vendor calls of a request (checked under Spec).

Task(r, v) == tasks[r][v]

MaxAttempts == Max(1, VENDOR_MAX_RETRIES)

\* The step in which the call of vendor v for request r ends with `result`.
CallEndsWith(r, v, result) ==
    /\ tasks[r][v].pc = "fetching"
    /\ tasks'[r][v].pc = "done"
    /\ tasks'[r][v].result = result

\* C5: an admitted, completed top-level vendor call makes exactly one
\* report to its breaker, a record_success when an attempt returned and a
\* record_failure when all attempts failed, and nothing is reported while
\* the attempts are still running: failed attempts followed by a success
\* add nothing to the failure counters.
C5_OneReportPerCall ==
    \A r \in Reqs, v \in Vendors :
        LET t == Task(r, v) IN
        /\ t.pc \in {"created", "fetching", "sleeping"}
            => t.successes = 0 /\ t.failures = 0
        /\ (t.pc = "done" /\ t.admitted = "yes")
            => /\ t.successes + t.failures = 1
               /\ t.result # Raised => t.successes = 1 /\ t.failures = 0
               /\ t.result = Raised => t.successes = 0 /\ t.failures = 1

\* C5 witness: a call whose first attempt failed and whose second attempt
\* returned a quote has reported one success and no failure.
C5_Witness ==
    \E r \in Reqs, v \in Vendors :
        LET t == Task(r, v) IN
        /\ t.pc = "done"
        /\ t.fetches = 2
        /\ t.result.kind = "quote"
        /\ t.successes = 1
        /\ t.failures = 0

\* C6: when can_execute answers false the vendor call ends at once with no
\* result: the vendor is not fetched, nothing is retried and nothing is
\* reported to the breaker.
C6_BlockedCallDoesNothing ==
    \A r \in Reqs, v \in Vendors :
        LET t == Task(r, v) IN
        /\ t.admitted = "no"
            => /\ t.pc = "done"
               /\ t.result = None
               /\ t.fetches = 0
               /\ t.attempt = 0
               /\ t.successes = 0
               /\ t.failures = 0
        /\ t.fetches > 0 => t.admitted = "yes"

\* C6 witness: a call has been refused by an open breaker in its cooldown.
C6_Witness ==
    \E r \in Reqs, v \in Vendors :
        /\ Task(r, v).admitted = "no"
        /\ Task(r, v).pc = "done"
        /\ breakers[v].state = "open"
        /\ InCooldown(breakers[v], now)

\* C7 as stated: when the vendor returns None the breaker is left as it
\* was, with no record_success and no record_failure.
C7_NotFoundLeavesBreaker ==
    [][\A r \in Reqs, v \in Vendors :
        CallEndsWith(r, v, None)
            => /\ breakers'[v].state = breakers[v].state
               /\ breakers'[v].failure_count = breakers[v].failure_count
               /\ breakers'[v].success_count = breakers[v].success_count
               /\ breakers'[v].total_failures = breakers[v].total_failures
      ]_vars

\* C7, as the code behaves: when the vendor returns None the call ends with
\* None after that fetch, without a retry and without a record_failure, and it is reported
\* to the breaker as one record_success: a half_open breaker closes, a
\* closed breaker has its failure counter reset to 0, an open breaker keeps
\* its state and failure counter.
C7_NotFoundIsReportedAsSuccess ==
    [][\A r \in Reqs, v \in Vendors :
        CallEndsWith(r, v, None)
            => LET b == breakers[v]
                   c == breakers'[v]
               IN
               /\ tasks'[r][v].fetches = tasks[r][v].fetches
               /\ c.success_count = b.success_count + 1
               /\ c.total_failures = b.total_failures
               /\ c.last_failure_time = b.last_failure_time
               /\ b.state = "half_open" => c.state = "closed" /\ c.failure_count = 0
               /\ b.state = "closed" => c.state = "closed" /\ c.failure_count = 0
               /\ b.state = "open" => c.state = "open" /\ c.failure_count = b.failure_count
      ]_vars

\* C7 witness: the probe of a breaker that had been open returned None and
\* the breaker is closed at this very moment, with failure counter 0.
C7_Witness ==
    \E r \in Reqs, v \in Vendors :
        LET t == Task(r, v) IN
        /\ t.pc = "done"
        /\ t.admitted = "yes"
        /\ t.result = None
        /\ t.successes = 1
        /\ breakers[v].state = "closed"
        /\ breakers[v].failure_count = 0
        /\ breakers[v].total_failures >= CIRCUIT_BREAKER_FAILURE_THRESHOLD
        /\ breakers[v].last_state_change = now
        /\ now >= CIRCUIT_BREAKER_TIMEOUT_SECONDS

\* C8: a vendor call makes at most max(1, VENDOR_MAX_RETRIES) fetches, so at
\* most VENDOR_MAX_RETRIES retries; it waits for a retry only while attempts
\* are left, and a call that ends with an exception, every attempt having
\* timed out or raised, has made exactly max(1, VENDOR_MAX_RETRIES) fetches.
C8_BoundedAttempts ==
    \A r \in Reqs, v \in Vendors :
        LET t == Task(r, v) IN
        /\ t.fetches = t.attempt
        /\ t.fetches <= MaxAttempts
        /\ t.fetches > 0 => t.fetches - 1 <= VENDOR_MAX_RETRIES
        /\ t.pc = "sleeping" => t.attempt < VENDOR_MAX_RETRIES
        /\ t.pc = "fetching" => t.attempt >= 1
        /\ (t.pc = "done" /\ t.result = Raised) => t.fetches = MaxAttempts

\* C8 witness: a call has ended with an exception after the last allowed
\* attempt.
C8_Witness ==
    \E r \in Reqs, v \in Vendors :
        LET t == Task(r, v) IN
        /\ t.pc = "done"
        /\ t.result = Raised
        /\ t.fetches = MaxAttempts
        /\ t.failures = 1

\* The quotes among the results of the vendor calls i..n of request r, in
\* the order of the vendor list.
RECURSIVE QuotesFrom(_, _)
QuotesFrom(r, i) ==
    IF i > Len(VendorNames) THEN <<>>
    ELSE (IF Task(r, VendorNames[i]).result.kind = "quote"
          THEN <<Task(r, VendorNames[i]).result>> ELSE <<>>)
            \o QuotesFrom(r, i + 1)

\* C9: the fan-out hands on exactly the quotes of the vendors that
\* succeeded, in vendor order; a vendor that failed after its retries, was
\* blocked by its breaker or returned None contributes nothing, and the
\* fan-out ends whatever the vendors did.
C9_FanOutKeepsSuccesses ==
    [][\A r \in Reqs :
        (reqs[r].pc = "gather" /\ reqs'[r].pc # "gather")
            => /\ reqs'[r].responses = QuotesFrom(r, 1)
               /\ reqs'[r].pc \in {"cache_set", "returned", "raised"}
      ]_vars

\* C9 witness: for a product that all three vendors carry only the second
\* vendor's quote came out of the fan-out.
C9_Witness ==
    \E r \in Reqs :
        /\ reqs[r].sku = "ABC123"
        /\ Len(reqs[r].responses) = 1
        /\ reqs[r].responses[1].vendor_name = "VendorTwo"

\* C10: a request looks into the cache before any vendor is contacted, the
\* vendor calls exist only during the fan-out, and the filtering and the
\* selection (the request's result) and the cache write come only after
\* every vendor call has ended.
C10_CacheThenVendorsThenSelection ==
    [][\A r \in Reqs :
        /\ (\E v \in Vendors : tasks[r][v].pc = "none" /\ tasks'[r][v].pc # "none")
            => /\ reqs[r].pc = "cache_get"
               /\ \A v \in Vendors : tasks[r][v].pc = "none"
        /\ (\E v \in Vendors : tasks'[r][v].fetches > tasks[r][v].fetches)
            => reqs[r].pc = "gather"
        /\ (\E v \in Vendors : tasks'[r][v].pc # "none")
            => /\ reqs'[r].pc = "gather"
               /\ reqs'[r].result = Pending
               /\ reqs'[r].responses = <<>>
        /\ (reqs[r].pc = "gather" /\ reqs'[r].pc # "gather")
            => \A v \in Vendors : tasks[r][v].pc = "done"
        /\ cache' # cache
            => \A v \in Vendors : tasks[r][v].pc = "none"
      ]_vars

\* C10 witness: after a cache miss and a fan-out a product has been selected
\* and waits to be written to the cache, with no vendor call left.
C10_Witness ==
    \E r \in Reqs :
        /\ reqs[r].pc = "cache_set"
        /\ reqs[r].result.kind = "product"
        /\ Len(reqs[r].responses) >= 1
        /\ \A v \in Vendors : Task(r, v).pc = "none"

\* ---------------------------------------------------------------------
\* Properties of the freshness filter and of the selection (SpecPure).

Cutoff(t) == t - DATA_FRESHNESS_MINUTES * 60

\* The quotes of a list observed at or after the cutoff, in their order.
RECURSIVE FreshPart(_, _)
FreshPart(quotes, t) ==
    IF quotes = <<>> THEN <<>>
    ELSE (IF Head(quotes).timestamp.t >= Cutoff(t) THEN <<Head(quotes)>> ELSE <<>>)
            \o FreshPart(Tail(quotes), t)

HasOffset(quotes) ==
    \E i \in 1..Len(quotes) : quotes[i].timestamp.tzinfo # "naive"

\* C11 as stated: the freshness filter returns exactly the quotes whose
\* timestamp is at or after now - max_age, in their order and unchanged.
C11_FilterKeepsFresh ==
    \A r \in Reqs :
        reqs[r].pc = "filtered"
            => reqs[r].result = [kind |-> "list", value |-> FreshPart(reqs[r].responses, now)]

\* C11, as the code behaves: on quotes whose timestamps carry no offset the
\* filter returns exactly those at or after the cutoff, in their order and
\* unchanged; when a timestamp carries an offset the comparison raises.
C11_FilterKeepsFreshOrRaises ==
    \A r \in Reqs :
        reqs[r].pc = "filtered"
            => reqs[r].result =
                 IF HasOffset(reqs[r].responses) THEN Raised
                 ELSE [kind |-> "list", value |-> FreshPart(reqs[r].responses, now)]

\* C11 witness: of two quotes without offset, one a second older than the
\* cutoff and one exactly at the cutoff, the filter kept the second only.
C11_Witness ==
    \E r \in Reqs :
        /\ reqs[r].pc = "filtered"
        /\ Len(reqs[r].responses) = 2
        /\ reqs[r].responses[1].timestamp = [t |-> Cutoff(now) - 1, tzinfo |-> "naive"]
        /\ reqs[r].responses[2].timestamp = [t |-> Cutoff(now), tzinfo |-> "naive"]
        /\ reqs[r].result = [kind |-> "list", value |-> <<reqs[r].responses[2]>>]

\* The quotes of a list that can be sold: stock above 0 and status IN_STOCK.
Sellable(quotes) ==
    { i \in 1..Len(quotes) : quotes[i].stock > 0 /\ quotes[i].status = "IN_STOCK" }

\* C12: the selection never returns a quote with stock 0 or status
\* OUT_OF_STOCK, what it returns is one of the quotes given, and it returns
\* no selection exactly when no quote given has stock above 0 with status
\* IN_STOCK.
C12_SelectionIsSellable ==
    \A r \in Reqs :
        reqs[r].pc = "selected"
            => LET quotes == reqs[r].responses
                   best == reqs[r].result
               IN  /\ best = None <=> Sellable(quotes) = {}
                   /\ best # None
                        => /\ \E i \in Sellable(quotes) : quotes[i] = best
                           /\ best.stock > 0
                           /\ best.status = "IN_STOCK"

\* C12 witness: of three quotes, two with stock 0 and one with stock but
\* status OUT_OF_STOCK, none was selected.
C12_Witness ==
    \E r \in Reqs :
        /\ reqs[r].pc = "selected"
        /\ Len(reqs[r].responses) = 3
        /\ reqs[r].responses[1].stock = 0
        /\ reqs[r].responses[2].stock > 0
        /\ reqs[r].responses[2].status = "OUT_OF_STOCK"
        /\ reqs[r].responses[3].stock = 0
        /\ reqs[r].result = None

\* The cheapest of the sellable quotes, the earliest in the list among
\* equally cheap ones.
CheapestIndex(quotes) ==
    CHOOSE i \in Sellable(quotes) :
        \A j \in Sellable(quotes) :
            \/ quotes[i].price < quotes[j].price
            \/ quotes[i].price = quotes[j].price /\ i <= j

\* Quote q is dearer than c by more than the threshold percent.
DearerBeyondThreshold(q, c) ==
    (q.price - c.price) * 100 > PRICE_DIFFERENCE_THRESHOLD_PERCENT * c.price

\* The sellable quotes that override the cheapest: dearer by more than the
\* threshold, with more stock.
Overriding(quotes) ==
    LET c == quotes[CheapestIndex(quotes)] IN
    { i \in Sellable(quotes) :
        DearerBeyondThreshold(quotes[i], c) /\ quotes[i].stock > c.stock }

Unexpired(sku) == cache[sku].present /\ now < cache[sku].expires

\* C15: a cache lookup that finds an unexpired entry makes get_best_vendor
\* return that entry at once: no vendor task is created, no breaker method
\* is called, no breaker changes and the cache is not written, neither at
\* the lookup nor when the result is handed to the caller.
C15_HitTouchesNothing ==
    [][\A r \in Reqs :
        /\ (reqs[r].pc = "cache_get" /\ reqs'[r].pc = "returned")
            => /\ Unexpired(reqs[r].sku)
               /\ reqs'[r].result = [kind |-> "product", value |-> cache[reqs[r].sku].value]
               /\ \A v \in Vendors : tasks[r][v].pc = "none"
               /\ tasks' = tasks
               /\ calls' = calls
               /\ breakers' = breakers
               /\ cache' = cache
        /\ (reqs[r].pc = "returned" /\ reqs'[r].pc # "returned")
            => /\ reqs'[r].pc = "idle"
               /\ tasks' = tasks
               /\ calls' = calls
               /\ breakers' = breakers
               /\ cache' = cache
      ]_vars

\* C15 witness: the first get_best_vendor call has returned the entry the
\* store held, the entry is still the one that was there, and every breaker
\* has seen just the calls it had seen before.
C15_Witness ==
    \E r \in Reqs :
        /\ reqs[r].pc = "returned"
        /\ resolves = 1
        /\ Unexpired(reqs[r].sku)
        /\ cache[reqs[r].sku] = StoredAt(reqs[r].sku, TickSeconds - CACHE_TTL_SECONDS)
        /\ reqs[r].result = [kind |-> "product", value |-> cache[reqs[r].sku].value]
        /\ calls = CallsAfterFailedCalls(since_clean)
        /\ \A v \in Vendors : breakers[v].total_calls = calls[v].can_execute

\* C16: after a cache miss set_product is called exactly when a quote was
\* selected, and a store that answers then holds the selected result under
\* the key, expiring CACHE_TTL_SECONDS later; when nothing is selected (or
\* the filter raised) the cache stays as it was; the cache is written by
\* nothing else.
C16_CachesSelectionOnly ==
    [][/\ \A r \in Reqs :
            /\ (reqs[r].pc = "gather" /\ reqs'[r].pc # "gather")
                => /\ cache' = cache
                   /\ reqs'[r].pc = "cache_set" <=> reqs'[r].result.kind = "product"
                   /\ reqs'[r].pc # "cache_set" => reqs'[r].result \in {None, Raised}
            /\ (reqs[r].pc = "cache_set" /\ reqs'[r].pc # "cache_set")
                => \/ cache' = cache
                   \/ cache' = [cache EXCEPT ![reqs[r].sku] =
                                   [present |-> TRUE, value |-> reqs[r].result.value,
                                    expires |-> now + CACHE_TTL_SECONDS]]
       /\ cache' # cache
            => \E r \in Reqs : reqs[r].pc = "cache_set" /\ reqs'[r].pc = "returned"
      ]_vars

\* C16 witness: a get_best_vendor call that fanned out has returned a
\* product, and the cache holds it under the key until now + TTL.
C16_Witness ==
    \E r \in Reqs :
        /\ reqs[r].pc = "returned"
        /\ reqs[r].result.kind = "product"
        /\ Len(reqs[r].responses) >= 1
        /\ cache[reqs[r].sku] = [present |-> TRUE, value |-> reqs[r].result.value,
                                 expires |-> now + CACHE_TTL_SECONDS]

\* C17: the lookup ends in a hit or in the fan-out, never in an exception,
\* and a lookup that the store does not answer ends in the fan-out; the
\* cache write ends with the selected result returned, stored or not; an
\* exception never comes from a cache step.
C17_CacheFailsOpen ==
    [][\A r \in Reqs :
        /\ (reqs[r].pc = "cache_get" /\ reqs'[r].pc # "cache_get")
            => /\ reqs'[r].pc \in {"returned", "gather"}
               /\ reqs'[r].pc = "gather"
                    => /\ reqs'[r].result = Pending
                       /\ \A v \in Vendors : tasks'[r][v].pc = "created"
        /\ (reqs[r].pc = "cache_set" /\ reqs'[r].pc # "cache_set")
            => /\ reqs'[r].pc = "returned"
               /\ reqs'[r].result = reqs[r].result
               /\ reqs[r].result.kind = "product"
        /\ (reqs[r].pc # "raised" /\ reqs'[r].pc = "raised")
            => reqs[r].pc = "gather"
      ]_vars

\* C17 witness: the store held an unexpired entry for the key and answered
\* neither the lookup nor the write: get_best_vendor has returned a product
\* selected from the vendors' answers, not the entry, and the entry is still
\* the old one.
C17_Witness ==
    \E r \in Reqs :
        /\ reqs[r].pc = "returned"
        /\ reqs[r].result.kind = "product"
        /\ Len(reqs[r].responses) >= 1
        /\ Unexpired(reqs[r].sku)
        /\ cache[reqs[r].sku] = StoredAt(reqs[r].sku, TickSeconds - CACHE_TTL_SECONDS)
        /\ reqs[r].result.value # cache[reqs[r].sku].value

\* C18 as stated: get_best_vendor never ends with an exception.
C18_NeverRaises ==
    \A r \in Reqs : reqs[r].pc # "raised"

\* C18, as the code behaves: get_best_vendor ends with an exception exactly
\* when a vendor's quote whose timestamp carries an offset came out of the
\* fan-out, and with a product or None otherwise.
C18_RaisesOnOffsetOnly ==
    \A r \in Reqs :
        /\ reqs[r].pc = "raised"
            => reqs[r].result = Raised /\ HasOffset(reqs[r].responses)
        /\ (reqs[r].pc \in {"returned", "cache_set"} /\ reqs[r].result # Pending)
            => /\ reqs[r].result = None \/ reqs[r].result.kind = "product"
               /\ ~HasOffset(reqs[r].responses)

\* C18 witness: get_best_vendor has raised with VendorOne's quote among the
\* responses.
C18_Witness ==
    \E r \in Reqs :
        /\ reqs[r].pc = "raised"
        /\ Len(reqs[r].responses) >= 1
        /\ reqs[r].responses[1].vendor_name = "VendorOne"

\* ---------------------------------------------------------------------
\* Properties of concurrent get_best_vendor calls (SpecConcurrent).

\* The breaker's own counters agree with the calls made to it.
CountersAgree(v) ==
    /\ breakers[v].total_calls = calls[v].can_execute
    /\ breakers[v].total_failures = calls[v].record_failure
    /\ breakers[v].success_count = calls[v].record_success

\* C19: however the steps of concurrent get_best_vendor calls interleave, no
\* update of a shared breaker is lost: its lifetime failure counter is the
\* number of record_failure calls made, its lifetime call counter the
\* number of can_execute calls made, every record_failure raises the
\* consecutive-failure counter by one, and a closed breaker opens at exactly
\* the record_failure that brings that counter to the threshold.
C19_NoLostBreakerUpdate ==
    [][\A v \in Vendors :
        /\ CountersAgree(v)
        /\ CountersAgree(v)'
        /\ calls'[v].record_failure # calls[v].record_failure
            => /\ calls'[v].record_failure = calls[v].record_failure + 1
               /\ breakers'[v].failure_count = breakers[v].failure_count + 1
               /\ breakers[v].state = "closed"
                    => (breakers'[v].state = "open"
                          <=> breakers'[v].failure_count >= CIRCUIT_BREAKER_FAILURE_THRESHOLD)
               /\ breakers[v].state = "open" => breakers'[v].state = "open"
        /\ calls'[v].record_failure = calls[v].record_failure
            => ~(breakers[v].state = "closed" /\ breakers'[v].state = "open")
      ]_vars

\* C19 witness: two calls were admitted by VendorThree's breaker one
\* failure short of opening and both failed: the first failure opened the
\* breaker, the second was counted on the open breaker.
C19_Witness ==
    \E r1, r2 \in ConcurrentReqs :
        /\ r1 # r2
        /\ tasks[r1]["VendorThree"].admitted = "yes"
        /\ tasks[r2]["VendorThree"].admitted = "yes"
        /\ tasks[r1]["VendorThree"].result = Raised
        /\ tasks[r2]["VendorThree"].result = Raised
        /\ breakers["VendorThree"].state = "open"
        /\ breakers["VendorThree"].failure_count = CIRCUIT_BREAKER_FAILURE_THRESHOLD + 1
        /\ breakers["VendorThree"].total_failures = calls["VendorThree"].record_failure

\* C20 as stated: a call for one key contacts the vendors it would contact
\* if it ran alone, whatever a concurrent call for another key does.  Alone,
\* a call that finds VendorThree's breaker closed is admitted by it.
C20_KeysIndependent ==
    \A r1, r2 \in ConcurrentReqs :
        (/\ r1 # r2
         /\ reqs[r1].pc # "idle"
         /\ reqs[r2].pc # "idle"
         /\ reqs[r1].sku # reqs[r2].sku)
            => tasks[r2]["VendorThree"].admitted # "no"

\* C20, as the code behaves: concurrent calls for different keys do not
\* change each other's locals or tasks and write no cache entry but that of
\* their own key, and they share the breaker of each vendor: whether a call
\* contacts a vendor is decided by that breaker's state at that moment,
\* whichever key's calls brought it there.
C20_KeysShareBreakersOnly ==
    [][\A r \in ConcurrentReqs :
        /\ (reqs'[r] # reqs[r] \/ tasks'[r] # tasks[r])
            => /\ \A o \in ConcurrentReqs \ {r} : reqs'[o] = reqs[o] /\ tasks'[o] = tasks[o]
               /\ \A k \in SKUs : cache'[k] # cache[k] => k = reqs[r].sku
        /\ \A v \in Vendors :
            (tasks[r][v].pc = "created" /\ tasks'[r][v].pc # "created")
                => (tasks'[r][v].admitted = "yes" <=> can_execute(breakers[v], now).ret)
      ]_vars

\* C20 witness: the call for one key failed at VendorThree and opened its
\* breaker, which both calls had found closed, and the concurrent call for
\* another key was then refused by it.
C20_Witness ==
    \E r1, r2 \in ConcurrentReqs :
        /\ reqs[r1].pc = "gather"
        /\ reqs[r2].pc = "gather"
        /\ reqs[r1].sku # reqs[r2].sku
        /\ tasks[r1]["VendorThree"].result = Raised
        /\ tasks[r1]["VendorThree"].failures = 1
        /\ tasks[r2]["VendorThree"].admitted = "no"
        /\ breakers["VendorThree"].state = "open"

(***************************************************************************)
(* C21: concurrent calls for one key.                                      *)
(***************************************************************************)
\* C21: there is no single-flight.  A get_best_vendor call whose cache
\* lookup misses starts a fan-out of its own, one task per vendor, whether
\* or not another call for the same key is fanning out at that moment, and
\* a call that stores a result stores the one it selected itself, under its
\* own key.
C21_NoSingleFlight ==
    [][\A r \in ConcurrentReqs :
        /\ (reqs[r].pc = "cache_get" /\ reqs'[r].pc = "gather")
            => \A v \in Vendors : tasks'[r][v].pc = "created"
        /\ (reqs[r].pc = "cache_set" /\ reqs'[r].pc = "returned")
            => \A k \in SKUs :
                cache'[k] # cache[k]
                    => /\ k = reqs[r].sku
                       /\ cache'[k].value = reqs[r].result.value
      ]_vars

\* C21 witness: two calls for the same key, neither of which found an entry,
\* are both waiting for VendorThree's answer at the same moment.
C21_Witness ==
    \E r1, r2 \in ConcurrentReqs :
        /\ r1 # r2
        /\ reqs[r1].sku = reqs[r2].sku
        /\ reqs[r1].pc = "gather"
        /\ reqs[r2].pc = "gather"
        /\ tasks[r1]["VendorThree"].pc = "fetching"
        /\ tasks[r2]["VendorThree"].pc = "fetching"
        /\ ~cache[reqs[r1].sku].present

\* Both of two concurrent calls for one key store: the first has stored and
\* returned, the second, which fanned out as well, is about to store its
\* own selection over it.
C21_BothStore ==
    \E r1, r2 \in ConcurrentReqs :
        /\ r1 # r2
        /\ reqs[r1].sku = reqs[r2].sku
        /\ reqs[r1].pc = "returned"
        /\ reqs[r1].result # None
        /\ cache[reqs[r1].sku].present
        /\ reqs[r2].pc = "cache_set"
        /\ calls["VendorThree"].record_success >= 2

(***************************************************************************)
(* C22: cancellation during the fan-out (SpecCancel).                      *)
(***************************************************************************)
\* C22: when a get_best_vendor call is cancelled during its fan-out, the
\* vendor calls that are not done are abandoned without a record_success or
\* a record_failure: the step leaves every breaker and the cache as they
\* were, and from then on the cancelled call takes no step, so it reports
\* nothing to a breaker and writes no cache entry.
C22_CancelAbandons ==
    [][\A r \in ConcurrentReqs :
        /\ (reqs[r].pc = "gather" /\ reqs'[r].pc = "cancelled")
            => /\ breakers' = breakers
               /\ calls' = calls
               /\ cache' = cache
               /\ \A v \in Vendors :
                    tasks[r][v].pc # "done"
                        => /\ tasks'[r][v].pc = "cancelled"
                           /\ tasks'[r][v].successes = 0
                           /\ tasks'[r][v].failures = 0
        /\ reqs[r].pc = "cancelled"
            => reqs'[r] = reqs[r] /\ tasks'[r] = tasks[r]
      ]_vars

\* C22 witness: a call was cancelled while its second attempt at VendorThree
\* was in flight; the breaker has counted the admission and no outcome for
\* it, and the store holds no entry for the key.
C22_Witness ==
    \E r \in ConcurrentReqs :
        /\ reqs[r].pc = "cancelled"
        /\ tasks[r]["VendorThree"].pc = "cancelled"
        /\ tasks[r]["VendorThree"].admitted = "yes"
        /\ tasks[r]["VendorThree"].attempt = 2
        /\ ~cache[reqs[r].sku].present
        /\ breakers["VendorThree"].total_calls
            > breakers["VendorThree"].success_count + breakers["VendorThree"].total_failures

(***************************************************************************)
(* C23 - C27: reset and the registry (SpecManager).                        *)
(***************************************************************************)
\* C23 as stated: after reset the breaker is in its initial state, with the
\* lifetime counters at zero as well, so that its metrics equal those of a
\* breaker just created but for the time spent in the state.
C23_ResetIsInitial ==
    last_call.op = "reset"
        => LET b == breakers[last_call.vendor]
               fresh == [CircuitBreaker(b.name) EXCEPT
                            !.last_state_change = b.last_state_change]
           IN  get_metrics(b, now) = get_metrics(fresh, now)

\* C23, as the code behaves: after reset the breaker is closed, its
\* last-failure instant is cleared and failure_count and success_count are
\* zero, while total_calls and total_failures still count every can_execute
\* and every record_failure made since the breaker was created.
C23_ResetKeepsLifetimeCounters ==
    last_call.op = "reset"
        => LET b == breakers[last_call.vendor] IN
            /\ b.state = "closed"
            /\ b.failure_count = 0
            /\ b.success_count = 0
            /\ b.last_failure_time = NoTime
            /\ b.total_calls = calls[last_call.vendor].can_execute
            /\ b.total_failures = calls[last_call.vendor].record_failure

\* C23 witness: an open breaker that had admitted a call and counted the
\* failures that opened it has been reset.
C23_Witness ==
    /\ last_call.op = "reset"
    /\ last_call.from = "open"
    /\ breakers[last_call.vendor].total_calls > 0
    /\ breakers[last_call.vendor].total_failures >= CIRCUIT_BREAKER_FAILURE_THRESHOLD
    /\ get_metrics(breakers[last_call.vendor], now).failure_rate_percent > 0

\* The methods of the registry that are not meant to change a breaker.
RegistryLookups ==
    {"register", "get_breaker", "get_all_metrics",
     "get_healthy_vendors", "get_unhealthy_vendors"}

\* The step is a call of the registry method op.
IsManagerCall(op) ==
    /\ last_call'.op = op
    /\ last_call.op = op => last_call' # last_call

\* C24: registering a name that is registered already returns the breaker
\* the registry holds for it and changes nothing; registering a new name
\* adds one breaker and leaves the others alone.  No step removes a name
\* from the registry, and no registry method puts another breaker in the
\* place of one it holds: register, get_breaker and the reads leave every
\* breaker as it is, and reset_all resets each breaker in place.
C24_RegisterIdempotent ==
    [][/\ DOMAIN breakers \subseteq DOMAIN breakers'
       /\ IsManagerCall("register")
            => LET name == last_call'.vendor IN
                /\ last_call'.ret = breakers'[name]
                /\ name \in DOMAIN breakers => breakers' = breakers
                /\ name \notin DOMAIN breakers
                    => DOMAIN breakers' = (DOMAIN breakers) \cup {name}
       /\ (\E op \in RegistryLookups : IsManagerCall(op))
            => \A v \in DOMAIN breakers : breakers'[v] = breakers[v]
       /\ IsManagerCall("reset_all")
            => \A v \in DOMAIN breakers : breakers'[v] = reset(breakers[v], now)
      ]_vars

\* C24 witness: VendorOne has been registered again while its breaker was
\* open, and the breaker returned is that open breaker, still in the
\* registry with its counters.
C24_Witness ==
    /\ last_call.op = "register"
    /\ last_call.vendor = "VendorOne"
    /\ last_call.ret = breakers["VendorOne"]
    /\ breakers["VendorOne"].state = "open"
    /\ breakers["VendorOne"].total_failures = CIRCUIT_BREAKER_FAILURE_THRESHOLD
    /\ DOMAIN breakers = Vendors

Range(seq) == {seq[i] : i \in 1..Len(seq)}

\* C25: get_healthy_vendors returns exactly the registered vendors whose
\* breaker is closed and get_unhealthy_vendors exactly those whose breaker
\* is open, each once; the two lists have no vendor in common, and a vendor
\* whose breaker is half_open is in neither.
C25_HealthyClosedUnhealthyOpen ==
    LET healthy == get_healthy_vendors(breakers)
        unhealthy == get_unhealthy_vendors(breakers)
    IN  /\ Range(healthy) = {v \in DOMAIN breakers : breakers[v].state = "closed"}
        /\ Range(unhealthy) = {v \in DOMAIN breakers : breakers[v].state = "open"}
        /\ Len(healthy) = Cardinality(Range(healthy))
        /\ Len(unhealthy) = Cardinality(Range(unhealthy))
        /\ Range(healthy) \cap Range(unhealthy) = {}
        /\ \A v \in DOMAIN breakers :
            breakers[v].state = "half_open"
                => v \notin Range(healthy) \cup Range(unhealthy)
        /\ last_call.op = "get_healthy_vendors" => last_call.ret = healthy
        /\ last_call.op = "get_unhealthy_vendors" => last_call.ret = unhealthy

\* C25 witness: get_healthy_vendors was called while VendorOne's breaker was
\* half_open and returned the other two vendors.
C25_Witness ==
    /\ last_call.op = "get_healthy_vendors"
    /\ DOMAIN breakers = Vendors
    /\ breakers["VendorOne"].state = "half_open"
    /\ last_call.ret = <<"VendorTwo", "VendorThree">>
    /\ get_unhealthy_vendors(breakers) = <<>>

RegistryReads == {"get_all_metrics", "get_healthy_vendors", "get_unhealthy_vendors"}

\* C26: get_all_metrics, which calls get_metrics on every breaker,
\* get_healthy_vendors and get_unhealthy_vendors are pure reads in every
\* state: the call changes no breaker, registers and removes none, does not
\* move an open breaker whose cooldown has elapsed to half_open, and the
\* can_execute that follows answers and acts as it would have without it.
C26_ReadsArePure ==
    [][(\E op \in RegistryReads : IsManagerCall(op))
        => /\ breakers' = breakers
           /\ now' = now
           /\ \A v \in DOMAIN breakers :
                can_execute(breakers'[v], now') = can_execute(breakers[v], now)
           /\ last_call'.op = "get_all_metrics"
                => last_call'.ret = [v \in DOMAIN breakers |-> get_metrics(breakers[v], now)]
      ]_vars

\* C26 witness: the metrics were read while VendorOne's breaker was open
\* with its cooldown elapsed; the breaker is still open and the next
\* can_execute will be the probe.
C26_Witness ==
    /\ last_call.op = "get_all_metrics"
    /\ DOMAIN breakers = Vendors
    /\ last_call.ret["VendorOne"].state = "open"
    /\ breakers["VendorOne"].state = "open"
    /\ _should_attempt_reset(breakers["VendorOne"], now)
    /\ can_execute(breakers["VendorOne"], now).ret
    /\ can_execute(breakers["VendorOne"], now).breaker.state = "half_open"

\* C27: get_breaker for a name that is not registered raises KeyError,
\* creates no breaker and leaves the registry as it was; for a registered
\* name it returns the breaker the registry holds for it, unchanged.
C27_GetBreakerOfUnknownFails ==
    [][IsManagerCall("get_breaker")
        => LET name == last_call'.vendor IN
            /\ breakers' = breakers
            /\ name \notin DOMAIN breakers => last_call'.ret = KeyError
            /\ name \in DOMAIN breakers => last_call'.ret = breakers[name]
      ]_vars

\* C27 witness: with VendorOne and VendorTwo registered, get_breaker was
\* called for VendorThree and raised; VendorThree is still not registered.
C27_Witness ==
    /\ last_call.op = "get_breaker"
    /\ last_call.vendor = "VendorThree"
    /\ last_call.ret = KeyError
    /\ DOMAIN breakers = {"VendorOne", "VendorTwo"}
    /\ breakers["VendorOne"].total_calls > 0

(***************************************************************************)
(* C28: normalization (SpecNormalize).                                     *)
(***************************************************************************)
\* The raw response a normalized result was made of: its stock, null
\* included, and whether its availability flag says in stock.
RawStock(raw) ==
    IF "quantity" \in DOMAIN raw THEN raw.quantity ELSE raw.stock_count

RawInStock(raw) ==
    IF "quantity" \in DOMAIN raw
    THEN raw.availability_status = "IN_STOCK"
    ELSE raw.in_stock

RawPrice(raw) ==
    IF "quantity" \in DOMAIN raw THEN raw.unit_price ELSE raw.price_amount

\* C28: whatever the raw stock (null, 0, positive) and the raw availability
\* flag, a quote made by a vendor's normalization has status OUT_OF_STOCK
\* exactly when its stock is 0, stock >= 0 and price > 0.  A null stock with
\* the flag saying in stock gives stock 5 and IN_STOCK, a positive stock
\* gives that stock and IN_STOCK, anything else stock 0 and OUT_OF_STOCK.
\* No quote is made of a raw price that is not positive.
C28_NormalizedQuoteIsConsistent ==
    \A r \in Reqs :
        reqs[r].pc = "normalized"
            => LET raw == reqs[r].responses[1]
                   q == reqs[r].result
               IN  IF RawPrice(raw) <= 0
                   THEN q = Raised
                   ELSE /\ q.kind = "quote"
                        /\ q.status \in {"IN_STOCK", "OUT_OF_STOCK"}
                        /\ q.status = "OUT_OF_STOCK" <=> q.stock = 0
                        /\ q.stock >= 0
                        /\ q.price > 0
                        /\ q.price = RawPrice(raw)
                        /\ q.stock = IF RawStock(raw) = NoStock
                                     THEN IF RawInStock(raw) THEN 5 ELSE 0
                                     ELSE RawStock(raw)

\* C28 witness: VendorOne's raw response with a null quantity and the status
\* IN_STOCK has been normalized to stock 5, IN_STOCK.
C28_Witness ==
    \E r \in Reqs :
        /\ reqs[r].pc = "normalized"
        /\ "quantity" \in DOMAIN reqs[r].responses[1]
        /\ reqs[r].result # Raised
        /\ reqs[r].responses[1].quantity = NoStock
        /\ reqs[r].responses[1].availability_status = "IN_STOCK"
        /\ reqs[r].result.vendor_name = "VendorOne"
        /\ reqs[r].result.stock = 5
        /\ reqs[r].result.status = "IN_STOCK"

(***************************************************************************)
(* C29: the API key check (SpecHttp).                                      *)
(***************************************************************************)
\* The request was answered before check_rate_limit, validate_sku and
\* get_best_vendor were called for it.
WentNoFurther(q) ==
    /\ requests[q].pc = "responded"
    /\ ~requests[q].checked
    /\ requests[q].count = 0
    /\ ~requests[q].validated
    /\ ~requests[q].resolved

IsConfiguredKey(k) ==
    \E i \in 1..Len(get_valid_api_keys_list) : get_valid_api_keys_list[i] = k

\* C29 as stated: a request without an x-api-key header is answered 401 and
\* goes no further, and a request whose key is not one of the configured
\* keys is answered 403 and goes no further.  (An empty header value may be
\* answered either way.)
C29_KeyCheckStopsRequest ==
    \A q \in HttpReqs :
        requests[q].pc # "idle"
            => LET header == requests[q].header IN
                /\ ~header.present => requests[q].status = 401 /\ WentNoFurther(q)
                /\ (header.present /\ ~IsConfiguredKey(header.value))
                    => /\ requests[q].status \in
                            IF header.value = <<>> THEN {401, 403} ELSE {403}
                       /\ WentNoFurther(q)

\* C29, as the code behaves: a request without the header, or with an empty
\* one, is answered 401 and goes no further; a request whose key does not
\* occur in the VALID_API_KEYS string is answered 403 and goes no further;
\* a request whose key occurs in that string, as a configured key or as any
\* other part of the string, goes on to the rate limiter.  The steps that
\* answer 401 or 403 leave the counters and get_best_vendor alone.
C29_KeyCheckBySubstring ==
    \A q \in HttpReqs :
        requests[q].pc # "idle"
            => LET header == requests[q].header IN
                IF ~header.present \/ header.value = <<>>
                THEN requests[q].status = 401 /\ WentNoFurther(q)
                ELSE IF ~IsSubstring(header.value, VALID_API_KEYS)
                THEN requests[q].status = 403 /\ WentNoFurther(q)
                ELSE requests[q].checked /\ requests[q].status \notin {401, 403}

\* C29 witness: of two requests for a valid SKU one came without the header
\* and was answered 401; the other came with a key that is no configured
\* key but a piece of one, passed the rate limiter and had get_best_vendor
\* called.
C29_Witness ==
    \E q1, q2 \in HttpReqs :
        /\ ~requests[q1].header.present
        /\ requests[q1].status = 401
        /\ WentNoFurther(q1)
        /\ requests[q2].header.present
        /\ requests[q2].header.value = <<"key">>
        /\ ~IsConfiguredKey(requests[q2].header.value)
        /\ requests[q2].count = 1
        /\ requests[q2].resolved
        /\ rate_limits[<<"key">>].count = 1
        /\ resolves = 1

(***************************************************************************)
(* C30: a success that reaches an open breaker (SpecConcurrent).           *)
(***************************************************************************)
\* The instants at which the properties look at a breaker.
Instants == {k * TickSeconds : k \in 0..(MaxTicks + 1)}

\* C30: a record_success on an open breaker changes nothing but
\* success_count: the breaker stays open, failure_count, last_failure_time,
\* last_state_change and the lifetime counters are as before, and
\* can_execute answers as it would have without it: false at every instant
\* of the cooldown, true with the move to half_open once it has elapsed.
C30_SuccessLeavesOpenBreaker ==
    [][\A v \in Vendors :
        (IsRecordSuccess(v) /\ breakers[v].state = "open")
            => /\ breakers'[v] = [breakers[v] EXCEPT !.success_count = @ + 1]
               /\ \A t \in Instants :
                    /\ can_execute(breakers'[v], t).ret = can_execute(breakers[v], t).ret
                    /\ InCooldown(breakers[v], t) => ~can_execute(breakers'[v], t).ret
                    /\ (t >= now /\ ~InCooldown(breakers[v], t))
                        => can_execute(breakers'[v], t).breaker.state = "half_open"
      ]_vars

\* C30 witness: two calls were admitted by VendorThree's closed breaker; the
\* failure of one opened it, and the other then returned and recorded its
\* success on the open breaker, which is still open with its failure count.
C30_Witness ==
    \E r1, r2 \in ConcurrentReqs :
        /\ r1 # r2
        /\ tasks[r1]["VendorThree"].pc = "done"
        /\ tasks[r1]["VendorThree"].failures = 1
        /\ tasks[r2]["VendorThree"].pc = "done"
        /\ tasks[r2]["VendorThree"].admitted = "yes"
        /\ tasks[r2]["VendorThree"].successes = 1
        /\ breakers["VendorThree"].state = "open"
        /\ breakers["VendorThree"].success_count = 1
        /\ breakers["VendorThree"].failure_count = CIRCUIT_BREAKER_FAILURE_THRESHOLD
        /\ breakers["VendorThree"].last_failure_time = now
        /\ ~can_execute(breakers["VendorThree"], now).ret

(***************************************************************************)
(* C31: the backoff between the attempts of one vendor call (SpecRetry).   *)
(***************************************************************************)
\* C31: within one vendor call the sleep before retry number k is
\* BackoffBaseMs * 2^(k-1): 0.1 s before the first retry and each later
\* sleep twice the one before.  It is the same after a timeout and after
\* any other failure.  A sleep only follows a failed attempt that has a
\* retry left, and is followed by that retry; the last failed attempt and a
\* success end the call without a sleep.
C31_BackoffDoubles ==
    [][\A r \in Reqs, v \in Vendors :
        LET before == tasks[r][v]
            after == tasks'[r][v]
        IN
        /\ (before.pc # "sleeping" /\ after.pc = "sleeping")
            => /\ before.pc = "fetching"
               /\ before.attempt < MaxRetriesSetting
               /\ after.attempt = before.attempt
               /\ after.backoff = BackoffBaseMs * 2 ^ (before.attempt - 1)
               /\ before.attempt = 1 => after.backoff = BackoffBaseMs
               /\ before.attempt > 1 => after.backoff = 2 * before.backoff
               /\ \A error \in {"timeout", "error"} :
                    backoff_time(before.attempt, error) = after.backoff
        /\ (before.pc = "sleeping" /\ after.pc # "sleeping")
            => /\ after.pc = "fetching"
               /\ after.attempt = before.attempt + 1
               /\ after.backoff = before.backoff
        /\ (before.pc = "fetching" /\ after.pc = "done")
            => /\ after.backoff = before.backoff
               /\ after.result = Raised => before.attempt = MaxRetriesSetting
      ]_vars

\* C31 witness: VendorOne's third attempt failed and the call sleeps 0.4 s
\* before the third retry; VendorTwo answered on its first attempt and never
\* slept; VendorThree failed its last attempt after sleeping 0.4 s and
\* raised.
C31_Witness ==
    \E r \in Reqs :
        /\ tasks[r]["VendorOne"].pc = "sleeping"
        /\ tasks[r]["VendorOne"].attempt = 3
        /\ tasks[r]["VendorOne"].backoff = 4 * BackoffBaseMs
        /\ tasks[r]["VendorTwo"].pc = "done"
        /\ tasks[r]["VendorTwo"].attempt = 1
        /\ tasks[r]["VendorTwo"].result \notin {Raised, Pending}
        /\ tasks[r]["VendorTwo"].backoff = 0
        /\ tasks[r]["VendorThree"].pc = "done"
        /\ tasks[r]["VendorThree"].attempt = MaxRetriesSetting
        /\ tasks[r]["VendorThree"].result = Raised
        /\ tasks[r]["VendorThree"].backoff = 4 * BackoffBaseMs

(***************************************************************************)
(* C32: a failure that reaches an open breaker (SpecBreaker).              *)
(***************************************************************************)
\* C32: a record_failure on an open breaker leaves it open and changes
\* nothing but three fields: failure_count and total_failures go up by one
\* and last_failure_time becomes the time of this failure.  The cooldown
\* therefore runs from this failure: can_execute refuses at every instant
\* before now + CIRCUIT_BREAKER_TIMEOUT_SECONDS, also at instants at which
\* it would have admitted without this failure, and from then on admits and
\* moves the breaker to half_open.
C32_FailureOnOpenRestartsCooldown ==
    [][\A v \in Vendors :
        (IsRecordFailure(v) /\ breakers[v].state = "open")
            => /\ breakers'[v] = [breakers[v] EXCEPT !.failure_count = @ + 1,
                                                     !.total_failures = @ + 1,
                                                     !.last_failure_time = now]
               /\ breakers'[v].state = "open"
               /\ breakers'[v].last_state_change = breakers[v].last_state_change
               /\ \A t \in Instants :
                    LET c == can_execute(breakers'[v], t) IN
                    /\ c.ret <=> t >= now + CIRCUIT_BREAKER_TIMEOUT_SECONDS
                    /\ c.breaker.state = IF c.ret THEN "half_open" ELSE "open"
      ]_vars

\* C32 witness: the breaker opened at time 0; a failure was recorded on the
\* open breaker one tick later; now, a full cooldown after the opening,
\* can_execute still refuses, where it would have admitted had the late
\* failure not been recorded.
C32_Witness ==
    \E v \in Vendors :
        /\ last_call.vendor = v
        /\ last_call.op = "can_execute"
        /\ last_call.from = "open"
        /\ last_call.ret = FALSE
        /\ breakers[v].state = "open"
        /\ breakers[v].last_state_change = 0
        /\ breakers[v].last_failure_time = TickSeconds
        /\ breakers[v].failure_count = CIRCUIT_BREAKER_FAILURE_THRESHOLD + 1
        /\ breakers[v].total_failures = CIRCUIT_BREAKER_FAILURE_THRESHOLD + 1
        /\ now = CIRCUIT_BREAKER_TIMEOUT_SECONDS
        /\ now >= breakers[v].last_state_change + CIRCUIT_BREAKER_TIMEOUT_SECONDS

(***************************************************************************)
(* C33: the consecutive-failure counter of a closed breaker (SpecManager). *)
(***************************************************************************)
\* C33: a closed breaker's failure_count is below
\* CIRCUIT_BREAKER_FAILURE_THRESHOLD, in the first state and after every
\* step; it is 0 right after every step that takes a breaker from open or
\* half_open to closed, and right after every record_success on a closed
\* breaker, which stays closed.
C33_ClosedBelowThreshold ==
    /\ \A v \in DOMAIN breakers :
            breakers[v].state = "closed"
                => breakers[v].failure_count < CIRCUIT_BREAKER_FAILURE_THRESHOLD
    /\ [][\A v \in (DOMAIN breakers) \cap (DOMAIN breakers') :
            /\ breakers'[v].state = "closed"
                => breakers'[v].failure_count < CIRCUIT_BREAKER_FAILURE_THRESHOLD
            /\ (breakers[v].state # "closed" /\ breakers'[v].state = "closed")
                => breakers'[v].failure_count = 0
            /\ (IsRecordSuccess(v) /\ breakers[v].state = "closed")
                => /\ breakers'[v].state = "closed"
                   /\ breakers'[v].failure_count = 0
            /\ (IsManagerCall("reset") /\ last_call'.vendor = v)
                => /\ breakers'[v].state = "closed"
                   /\ breakers'[v].failure_count = 0
       ]_vars

\* C33 witness: the breaker opened at the threshold, went to half_open after
\* the cooldown and was closed by a success: it is closed with
\* failure_count 0 and CIRCUIT_BREAKER_FAILURE_THRESHOLD failures in its
\* lifetime counter.
C33_Witness ==
    \E v \in DOMAIN breakers :
        /\ last_call.vendor = v
        /\ last_call.op = "record_success"
        /\ last_call.from = "half_open"
        /\ breakers[v].state = "closed"
        /\ breakers[v].failure_count = 0
        /\ breakers[v].total_failures = CIRCUIT_BREAKER_FAILURE_THRESHOLD
        /\ breakers[v].last_state_change = now
        /\ now >= CIRCUIT_BREAKER_TIMEOUT_SECONDS

(***************************************************************************)
(* C34: an open breaker can always be left (SpecManager).                  *)
(***************************************************************************)
\* C34: an open breaker has its last_failure_time set, in the first state
\* and after every step, so that at every instant from the end of the
\* cooldown on can_execute admits and moves it to half_open.  A can_execute
\* made on an open breaker once the cooldown has elapsed returns true and
\* leaves the breaker half_open; one that refuses does so within the
\* cooldown, never for want of a last_failure_time.
C34_NeverLockedOpen ==
    /\ \A v \in DOMAIN breakers :
            breakers[v].state = "open" => breakers[v].last_failure_time # NoTime
    /\ [][\A v \in (DOMAIN breakers) \cap (DOMAIN breakers') :
            /\ breakers'[v].state = "open"
                => /\ breakers'[v].last_failure_time # NoTime
                   /\ \A t \in Instants :
                        t >= breakers'[v].last_failure_time + CIRCUIT_BREAKER_TIMEOUT_SECONDS
                            => /\ can_execute(breakers'[v], t).ret
                               /\ can_execute(breakers'[v], t).breaker.state = "half_open"
            /\ (IsCanExecute(v) /\ breakers[v].state = "open")
                => /\ breakers[v].last_failure_time # NoTime
                   /\ last_call'.ret
                        <=> now >= breakers[v].last_failure_time + CIRCUIT_BREAKER_TIMEOUT_SECONDS
                   /\ last_call'.ret => breakers'[v].state = "half_open"
                   /\ ~last_call'.ret => InCooldown(breakers[v], now)
       ]_vars

\* C34 witness: the breaker opened, no failure followed, and the first
\* can_execute after the cooldown returned true and left it half_open.
C34_Witness ==
    \E v \in DOMAIN breakers :
        /\ last_call.vendor = v
        /\ last_call.op = "can_execute"
        /\ last_call.from = "open"
        /\ last_call.ret = TRUE
        /\ breakers[v].state = "half_open"
        /\ breakers[v].failure_count = CIRCUIT_BREAKER_FAILURE_THRESHOLD
        /\ breakers[v].total_failures = CIRCUIT_BREAKER_FAILURE_THRESHOLD
        /\ breakers[v].total_calls = 1
        /\ breakers[v].last_failure_time # NoTime
        /\ now = breakers[v].last_failure_time + CIRCUIT_BREAKER_TIMEOUT_SECONDS

(***************************************************************************)
(* C35: what get_best_vendor stores (Spec).                                *)
(***************************************************************************)
\* The entry is a sellable result for its key.
SellableEntry(sku, entry) ==
    /\ entry.value.sku = sku
    /\ entry.value.vendor \in Vendors
    /\ entry.value.status = "IN_STOCK"
    /\ entry.value.stock > 0
    /\ entry.value.price > 0

\* The entry's fields are those of quote q.
EntryOfQuote(entry, q) ==
    /\ entry.value.vendor = q.vendor_name
    /\ entry.value.price = q.price
    /\ entry.value.stock = q.stock
    /\ entry.value.status = q.status
    /\ entry.value.timestamp = q.timestamp

\* C35: every entry of the store is a result with a vendor, status
\* IN_STOCK, stock > 0 and price > 0, in the first state and after every
\* step.  An entry changes only when a get_best_vendor call returns from
\* its cache write; the call had selected a quote, and the entry's vendor,
\* price, stock, status and timestamp are those of one quote of the call's
\* own fan-out, which that vendor returns for the key.  A call whose result
\* is None or an exception stores nothing.
C35_StoredEntryIsSelectedQuote ==
    /\ \A sku \in SKUs : cache[sku].present => SellableEntry(sku, cache[sku])
    /\ [][\A sku \in SKUs :
            /\ cache'[sku].present => SellableEntry(sku, cache'[sku])
            /\ cache'[sku] # cache[sku]
                => \E r \in Reqs :
                    /\ reqs[r].pc = "cache_set"
                    /\ reqs'[r].pc = "returned"
                    /\ reqs[r].sku = sku
                    /\ reqs[r].result.kind = "product"
                    /\ cache'[sku].present
                    /\ cache'[sku].value = reqs[r].result.value
                    /\ \E i \in 1..Len(reqs[r].responses) :
                        LET q == reqs[r].responses[i] IN
                        /\ EntryOfQuote(cache'[sku], q)
                        /\ q.sku = sku
                        /\ \E t \in Instants : q \in GetProduct(q.vendor_name, sku, t)
            /\ \A r \in Reqs :
                (reqs'[r].pc \in {"returned", "raised"} /\ reqs'[r].result \in {None, Raised})
                    => cache'[reqs'[r].sku] = cache[reqs'[r].sku]
       ]_vars

\* C35 witness: a call for ABC123 on an empty store got VendorThree's quote,
\* selected it and stored it: the entry carries that quote's fields.
C35_Witness ==
    \E r \in Reqs :
        /\ reqs[r].pc = "returned"
        /\ reqs[r].sku = "ABC123"
        /\ reqs[r].result.kind = "product"
        /\ Len(reqs[r].responses) = 1
        /\ reqs[r].responses[1].vendor_name = "VendorThree"
        /\ cache["ABC123"].present
        /\ cache["ABC123"].value = reqs[r].result.value
        /\ EntryOfQuote(cache["ABC123"], reqs[r].responses[1])
        /\ SellableEntry("ABC123", cache["ABC123"])
        /\ cache["ABC123"].value.timestamp.t >= 0
        /\ cache["GHI303"] = NoEntry

(***************************************************************************)
(* C36: the freshness comparison on the normalizers' quotes (Spec).        *)
(***************************************************************************)
\* The quotes VendorOne and VendorTwo return for the keys at the instants
\* of the clock: each is the work of the vendor's normalizer.
NormalizerQuotes ==
    { q \in UNION { GetProduct(v, sku, t) :
                        v \in {"VendorOne", "VendorTwo"}, sku \in SKUs, t \in Instants } :
        q.kind = "quote" }

\* C36 as stated: the freshness filter raises on no quote of the
\* normalizers, and a get_best_vendor call whose fan-out yielded at least
\* one quote goes on to the selection: it ends with a product or None.
C36_FilterNeverRaises ==
    [][\A r \in Reqs :
        (reqs[r].pc = "gather" /\ reqs'[r].pc # "gather"
            /\ Len(reqs'[r].responses) >= 1)
            => /\ \A i \in 1..Len(reqs'[r].responses) :
                    reqs'[r].responses[i] \in NormalizerQuotes
                        => ~_filter_by_freshness(<<reqs'[r].responses[i]>>, now).raised
               /\ reqs'[r].pc \in {"cache_set", "returned"}
      ]_vars

\* C36, as the code behaves: every quote of the normalizers carries the UTC
\* offset, and the filter raises on every list that holds one.  A
\* get_best_vendor call whose fan-out yielded a quote of VendorOne or
\* VendorTwo ends with that exception, before the selection; it reaches the
\* selection only when no quote of the fan-out carries an offset.
C36_FilterRaisesOnNormalizerQuotes ==
    /\ \A q \in NormalizerQuotes :
            /\ q.timestamp.tzinfo = "utc"
            /\ _filter_by_freshness(<<q>>, now).raised
    /\ [][\A r \in Reqs :
            (reqs[r].pc = "gather" /\ reqs'[r].pc # "gather")
                => LET quotes == reqs'[r].responses
                       fromNormalizer ==
                            \E i \in 1..Len(quotes) :
                                quotes[i].vendor_name \in {"VendorOne", "VendorTwo"}
                   IN  /\ fromNormalizer => reqs'[r].pc = "raised"
                       /\ reqs'[r].pc = "raised" <=> HasOffset(quotes)
                       /\ reqs'[r].pc \in {"cache_set", "returned", "raised"}
       ]_vars

\* C36 witness: on a cache miss for ABC123 VendorThree failed and the
\* fan-out yielded the quotes of VendorOne and VendorTwo, both in stock and
\* seconds old; get_best_vendor raised.
C36_Witness ==
    \E r \in Reqs :
        /\ reqs[r].pc = "raised"
        /\ reqs[r].sku = "ABC123"
        /\ reqs[r].result = Raised
        /\ Len(reqs[r].responses) = 2
        /\ reqs[r].responses[1] = VendorOneGetProduct("ABC123", now)
        /\ reqs[r].responses[2] = VendorTwoGetProduct("ABC123", now)
        /\ reqs[r].responses[1].status = "IN_STOCK"
        /\ reqs[r].responses[1].timestamp.t >= Cutoff(now)
        /\ ~cache["ABC123"].present

(***************************************************************************)
(* C37: the selection and the order of its input (SpecPure).               *)
(***************************************************************************)
\* The list quotes rearranged by the permutation p of its indices.
Permuted(quotes, p) == [i \in 1..Len(quotes) |-> quotes[p[i]]]

\* The ways to rearrange a list.
Rearrangements(quotes) ==
    { Permuted(quotes, p) : p \in Permutations(1..Len(quotes)) }

\* No two quotes of the list that can be sold have the same price.
DistinctSellablePrices(quotes) ==
    \A i, j \in Sellable(quotes) : i # j => quotes[i].price # quotes[j].price

\* C37 as stated: the selection returns the same quote for a list and for
\* every rearrangement of it.
C37_SelectionIgnoresOrder ==
    \A r \in Reqs :
        reqs[r].pc = "selected"
            => \A other \in Rearrangements(reqs[r].responses) :
                    _select_best_vendor(other) = reqs[r].result

\* C37, as the code behaves: the selection returns the same quote for every
\* rearrangement of a list in which the quotes that can be sold have
\* pairwise different prices.  Of two sellable quotes with the same price
\* the one earlier in the list is the cheapest of the scan: given just two
\* such quotes the selection returns the first, so exchanging them changes
\* the result.
C37_SelectionIgnoresOrderOfDistinctPrices ==
    \A r \in Reqs :
        reqs[r].pc = "selected"
            => LET quotes == reqs[r].responses IN
               /\ DistinctSellablePrices(quotes)
                    => \A other \in Rearrangements(quotes) :
                            _select_best_vendor(other) = reqs[r].result
               /\ (/\ Len(quotes) = 2
                   /\ Sellable(quotes) = {1, 2}
                   /\ quotes[1].price = quotes[2].price)
                    => /\ reqs[r].result = quotes[1]
                       /\ _select_best_vendor(<<quotes[2], quotes[1]>>) = quotes[2]

\* C37 witness: of two in-stock quotes at the same price, the first with
\* stock 5 and the second with stock 50, the selection returned the first;
\* on the list with the two exchanged it returns the other.
C37_Witness ==
    \E r \in Reqs :
        /\ reqs[r].pc = "selected"
        /\ Len(reqs[r].responses) = 2
        /\ reqs[r].responses[1].price = reqs[r].responses[2].price
        /\ reqs[r].responses[1].stock = 5
        /\ reqs[r].responses[2].stock = 50
        /\ reqs[r].result = reqs[r].responses[1]
        /\ _select_best_vendor(<<reqs[r].responses[2], reqs[r].responses[1]>>)
                = reqs[r].responses[2]

(***************************************************************************)
(* C38: which x-api-key values pass the key check (SpecHttp).              *)
(***************************************************************************)
\* C38 as stated: only a request whose x-api-key value is one of the
\* configured keys gets to the rate limiter and the handler; one with any
\* other value is answered 403.  (An empty value may also be answered 401.)
C38_OnlyConfiguredKeysPass ==
    \A q \in HttpReqs :
        (requests[q].pc # "idle" /\ requests[q].header.present)
            => LET value == requests[q].header.value IN
                /\ (requests[q].checked \/ requests[q].validated \/ requests[q].resolved)
                        => IsConfiguredKey(value)
                /\ ~IsConfiguredKey(value)
                        => requests[q].status \in IF value = <<>> THEN {401, 403} ELSE {403}

\* C38, as the code behaves: a request gets to the rate limiter exactly
\* when its x-api-key value is non-empty and occurs somewhere in the
\* VALID_API_KEYS string.  Every configured key does; so does a part of a
\* key and a piece of the string that spans a comma, and such a value is
\* counted by the rate limiter under its own name.  Only a value that
\* occurs nowhere in the string is answered 403.
C38_SubstringsOfKeyStringPass ==
    /\ \A k \in KeysSent : IsConfiguredKey(k) => IsSubstring(k, VALID_API_KEYS)
    /\ \A q \in HttpReqs :
        (requests[q].pc # "idle" /\ requests[q].header.present)
            => LET value == requests[q].header.value IN
                /\ requests[q].checked
                        <=> (value # <<>> /\ IsSubstring(value, VALID_API_KEYS))
                /\ requests[q].status = 403
                        <=> (value # <<>> /\ ~IsSubstring(value, VALID_API_KEYS))
                /\ requests[q].status = 403 => WentNoFurther(q)
                /\ requests[q].count > 0 => rate_limits[value].count > 0

\* C38 witness: a request whose x-api-key is the end of one configured key,
\* the comma and the start of the next passed the key check, was counted
\* by the rate limiter under that value and was handled; a request with a
\* value that occurs nowhere in the string was answered 403.
C38_Witness ==
    \E q1, q2 \in HttpReqs :
        /\ requests[q1].header.value = <<"12345", ",", "demo">>
        /\ ~IsConfiguredKey(requests[q1].header.value)
        /\ requests[q1].checked
        /\ requests[q1].count = 1
        /\ rate_limits[<<"12345", ",", "demo">>].count = 1
        /\ requests[q1].validated
        /\ requests[q1].resolved
        /\ requests[q1].status = 200
        /\ requests[q2].header.value = <<"wrong", "-", "key">>
        /\ requests[q2].status = 403
        /\ WentNoFurther(q2)

(***************************************************************************)
(* C39: the rate limit per key and window (SpecRateLimit).                 *)
(***************************************************************************)
\* The counter's window is running at time t: the counter exists and has
\* not expired.
WindowRuns(counter, t) ==
    /\ counter.count > 0
    /\ counter.expires = NoTime \/ t < counter.expires

\* C39: when the store's increment succeeds for a request, the count it
\* gets is this check's number in the running window of its key: one more
\* than the counter held, or 1 when no window was running; the counters of
\* all other keys stay as they are.  The request is allowed, and goes on to
\* the handler, exactly when that number is at most RATE_LIMIT_REQUESTS,
\* and is answered 429 without reaching the handler otherwise, however the
\* steps of concurrent requests interleave.  When the increment fails the
\* request is allowed and no counter changes.
C39_LimitPerKeyAndWindow ==
    /\ [](\A q \in HttpReqs :
            /\ requests[q].status = 429 <=> requests[q].count > RATE_LIMIT_REQUESTS
            /\ requests[q].status = 429
                => /\ requests[q].pc = "responded"
                   /\ ~requests[q].validated
                   /\ ~requests[q].resolved)
    /\ [][\A q \in HttpReqs :
            LET key == requests[q].header.value
                n == requests'[q].count
            IN
            /\ (requests[q].pc = "increment" /\ requests'[q].pc # "increment")
                => IF n = 0
                   THEN /\ requests'[q].pc = "handler"
                        /\ rate_limits' = rate_limits
                   ELSE /\ n = IF WindowRuns(rate_limits[key], now)
                               THEN rate_limits[key].count + 1 ELSE 1
                        /\ rate_limits'[key].count = n
                        /\ \A k \in KeysSent \ {key} : rate_limits'[k] = rate_limits[k]
                        /\ requests'[q].pc =
                                IF n = 1 THEN "expire"
                                ELSE IF n <= RATE_LIMIT_REQUESTS THEN "handler"
                                ELSE "responded"
                        /\ requests'[q].status = 429 <=> n > RATE_LIMIT_REQUESTS
            /\ (requests[q].pc = "expire" /\ requests'[q].pc \notin {"expire", "cancelled"})
                => /\ requests'[q].pc = "handler"
                   /\ requests'[q].count = 1
                   /\ \A k \in KeysSent \ {key} : rate_limits'[k] = rate_limits[k]
       ]_vars

\* C39 witness: with the counter of a key at RATE_LIMIT_REQUESTS - 1 in a
\* running window, two requests with that key were checked: the one counted
\* RATE_LIMIT_REQUESTS was handled, the one counted RATE_LIMIT_REQUESTS + 1
\* was answered 429; no other key has a counter.
C39_Witness ==
    \E q1, q2 \in HttpReqs :
        LET key == get_valid_api_keys_list[1] IN
        /\ requests[q1].header.value = key
        /\ requests[q2].header.value = key
        /\ requests[q1].count = RATE_LIMIT_REQUESTS
        /\ requests[q1].status = 200
        /\ requests[q2].count = RATE_LIMIT_REQUESTS + 1
        /\ requests[q2].status = 429
        /\ ~requests[q2].validated
        /\ rate_limits[key].count = RATE_LIMIT_REQUESTS + 1
        /\ WindowRuns(rate_limits[key], now)
        /\ \A k \in KeysSent \ {key} : rate_limits[k] = NoCounter

(***************************************************************************)
(* C40: the end of a rate-limit window (SpecRateLimit).                    *)
(***************************************************************************)
\* A request with key k is between the INCR and the EXPIRE of its check.
InsideCheck(k) ==
    \E q \in HttpReqs : requests[q].pc = "expire" /\ requests[q].header.value = k

\* C40 as stated: a counter expires one window after the request that
\* created it.  Once the check that created it is over, the counter carries
\* an expiry no later than RATE_LIMIT_WINDOW_SECONDS after its creation,
\* whether the EXPIRE succeeded, failed or was never reached; and a check
\* made a window or more after the creation starts a new window: it counts
\* 1 and the request is allowed.
C40_CounterExpiresAfterWindow ==
    /\ [](\A k \in KeysSent :
            (rate_limits[k].count > 0 /\ ~InsideCheck(k))
                => /\ rate_limits[k].expires # NoTime
                   /\ rate_limits[k].expires
                        <= rate_limits[k].created + RATE_LIMIT_WINDOW_SECONDS)
    /\ [][\A q \in HttpReqs :
            LET key == requests[q].header.value IN
            (/\ requests[q].pc = "increment"
             /\ requests'[q].pc # "increment"
             /\ requests'[q].count > 0
             /\ rate_limits[key].count > 0
             /\ now >= rate_limits[key].created + RATE_LIMIT_WINDOW_SECONDS)
                => /\ requests'[q].count = 1
                   /\ requests'[q].status # 429
       ]_vars

\* C40, as the code behaves: a counter on which the EXPIRE succeeded
\* expires RATE_LIMIT_WINDOW_SECONDS after its creation, and the first check
\* from then on counts 1.  A counter whose creating request had its EXPIRE
\* fail, or was cancelled before it, has no expiry: it outlives the window,
\* and every later check, whenever it is made, counts one more on it.
C40_CounterExpiresIfExpireSucceeded ==
    /\ [](\A k \in KeysSent :
            rate_limits[k].count > 0
                => /\ rate_limits[k].expires
                        \in {NoTime, rate_limits[k].created + RATE_LIMIT_WINDOW_SECONDS}
                   /\ (rate_limits[k].expires = NoTime /\ ~InsideCheck(k))
                        => \E q \in HttpReqs :
                            /\ requests[q].header.value = k
                            /\ requests[q].count = 1
                            /\ requests[q].pc \notin {"increment", "expire"})
    /\ [][\A q \in HttpReqs :
            LET key == requests[q].header.value IN
            (/\ requests[q].pc = "increment"
             /\ requests'[q].pc # "increment"
             /\ requests'[q].count > 0
             /\ rate_limits[key].count > 0)
                => IF rate_limits[key].expires = NoTime
                   THEN /\ requests'[q].count = rate_limits[key].count + 1
                        /\ rate_limits'[key].expires = NoTime
                        /\ rate_limits'[key].created = rate_limits[key].created
                   ELSE now >= rate_limits[key].created + RATE_LIMIT_WINDOW_SECONDS
                            => /\ requests'[q].count = 1
                               /\ rate_limits'[key].created = now
       ]_vars

\* C40 witness: a request created the counter of its key and was cancelled
\* before the EXPIRE; a window later the counter is still there without an
\* expiry, and the next request with that key was counted 2 on it.
C40_Witness ==
    \E q1, q2 \in HttpReqs :
        LET key == get_valid_api_keys_list[1] IN
        /\ requests[q1].header.value = key
        /\ requests[q1].pc = "cancelled"
        /\ requests[q1].count = 1
        /\ requests[q2].header.value = key
        /\ requests[q2].count = 2
        /\ rate_limits[key] = [count |-> 2, expires |-> NoTime, created |-> 0]
        /\ now = RATE_LIMIT_WINDOW_SECONDS

====
